---- MODULE Spec2Model ----
(***************************************************************************)
(* Verification model of the holochain-rust storage core:                  *)
(*   - the example content addressable storage (CAS) and its riker actor   *)
(*     (core_types/src/cas/storage.rs),                                    *)
(*   - the storage test suites that drive it (round_trip_test, the EAV     *)
(*     suites),                                                            *)
(*   - the network handler and the aspect aggregation                      *)
(*     (core/src/network/handler/mod.rs).                                  *)
(***************************************************************************)
EXTENDS Integers, Sequences, FiniteSets, TLC

VARIABLES
    storage,     \* storage[a]: the HashMap<Address, Content> of actor a
    spawned,     \* number of actors SYS.actor_of has created so far
    actor,       \* actor[h]: the ActorRef held by handle h (NoActor: unused)
    origin,      \* origin[h]: the handle built by new() that h descends from
    mailbox,     \* mailbox[a]: queue of <<sender, message>> asks of actor a
    pc,          \* pc[t]: "idle", "blocked" (inside block_on_ask), ...
    call,        \* call[t]: the CAS call thread t has in progress or made last
    inbox,       \* inbox[t]: the reply told to thread t's ask, or NoMsg
    result,      \* result[t]: what t's last call returned, or NoResult
    snap,        \* snap[t]: the adds that had returned when t's call started
    done,        \* done[h]: the adds that have returned Ok, by origin handle
    asked,       \* asked[h]: the addresses any add was ever issued for
    step,        \* step[t]: position of thread t in round_trip_test
    chan,        \* chan[k]: messages in flight on mpsc channel k
    eavStorage,  \* the HashSet<EntityAttributeValue> of the EAV storage
    eavEver,     \* every triple add_eav was ever called with
    eavRepeat,   \* add_eav was called with a triple added before
    eavCall,     \* the last call of the EAV storage with what it returned
    net,         \* the node behind the NetHandler: what handle_store holds,
                 \* and the last call of the handler closure
    agg,         \* the node's dht as the aspect aggregation sees it, and
                 \* the aggregation in progress or made last
    asp,         \* the last conversion of an EntryAspect, with its result
    cli,         \* the key files on disk and the last call of keygen
    inst         \* the Instance of the link tests: its history of actions

casVarsButPc == <<storage, spawned, actor, origin, mailbox, call, inbox,
                  result, snap, done, asked>>
eavVars == <<eavStorage, eavEver, eavRepeat, eavCall>>
nodeVars == <<net, agg>>
moreVars == <<asp, cli, inst>>
vars == <<storage, spawned, actor, origin, mailbox, pc, call, inbox,
          result, snap, done, asked, step, chan, eavStorage, eavEver,
          eavRepeat, eavCall, net, agg, asp, cli, inst>>

(***************************************************************************)
(* Bounds of the model.                                                    *)
(***************************************************************************)
MaxActors == 2
MaxHandles == 3
NumCallers == 2

Actors == 1..MaxActors
Handles == 1..MaxHandles
Callers == 1..NumCallers

NoActor == 0
NoMsg == [type |-> "NoMsg"]
NoCall == [op |-> "none"]
NoResult == [ok |-> FALSE, val |-> "NoResult"]
Panic == [ok |-> FALSE, val |-> "panic"]

(***************************************************************************)
(* Option and Result values.                                               *)
(***************************************************************************)
None == <<>>
Some(v) == <<v>>
Ok(v) == [ok |-> TRUE, val |-> v]

(***************************************************************************)
(* Content, Address and AddressableContent.                                *)
(***************************************************************************)
Contents == {"foo", "bar"}

\* the AddressableContent types of round_trip_test
ContentTypes == {"ExampleAddressableContent", "OtherExampleAddressableContent",
                 "Content", "Entry"}

\* Address of a Content: a deterministic, collision free hash
Hash(c) == <<"hash", c>>

from_content(T, c) == [type |-> T, content |-> c]
content(ac) == ac.content
address(ac) == Hash(ac.content)

\* round_trip_test reads "foo" as Addressable, "bar" as OtherAddressable
\* and the unique entry as Entry
TypeOf(c) ==
    CASE c = "foo" -> "ExampleAddressableContent"
      [] c = "bar" -> "OtherExampleAddressableContent"
      [] OTHER -> "Entry"

Addressables == {from_content(TypeOf(c), c) : c \in Contents}
Addresses == {Hash(c) : c \in Contents}

(***************************************************************************)
(* HashMap<Address, Content>                                               *)
(***************************************************************************)
HashMapNew == <<>>

\* an insert that drops every other key
HashMapInsertOnly(m, k, v) == [x \in {k} |-> v]

HashMapInsert(m, k, v) ==
    [x \in (DOMAIN m) \cup {k} |-> IF x = k THEN v ELSE m[x]]
HashMapContainsKey(m, k) == k \in DOMAIN m
HashMapGet(m, k) == IF k \in DOMAIN m THEN Some(m[k]) ELSE None

(***************************************************************************)
(* ExampleContentAddressableStorageActor: the unthreadable operations on   *)
(* the actor's own storage.  Each yields <<new storage, result>>.          *)
(***************************************************************************)
\* an add that inserts into a copy of the storage and drops the copy
unthreadable_add_on_copy(m, addr, c) == <<m, Ok(<<>>)>>

\* an add that files every content under one key
unthreadable_add_one_key(m, addr, c) ==
    <<HashMapInsert(m, Hash("foo"), c), Ok(<<>>)>>

\* an add that takes a present key for a request to remove it
unthreadable_add_toggle(m, addr, c) ==
    IF addr \in DOMAIN m
    THEN <<[x \in (DOMAIN m) \ {addr} |-> m[x]], Ok(<<>>)>>
    ELSE <<HashMapInsert(m, addr, c), Ok(<<>>)>>

\* a contains that answers whether the store holds anything at all
unthreadable_contains_any(m, addr) == <<m, Ok(DOMAIN m # {})>>

unthreadable_add(m, addr, c) == <<HashMapInsert(m, addr, c), Ok(<<>>)>>
unthreadable_contains(m, addr) == <<m, Ok(HashMapContainsKey(m, addr))>>

\* a fetch that finds nothing
unthreadable_fetch_nothing(m, addr) == <<m, Ok(None)>>
unthreadable_fetch(m, addr) == <<m, Ok(HashMapGet(m, addr))>>

\* Protocol messages
CasAdd(addr, c) == [type |-> "CasAdd", address |-> addr, content |-> c]
CasContains(addr) == [type |-> "CasContains", address |-> addr]
CasFetch(addr) == [type |-> "CasFetch", address |-> addr]

\* the match of Actor::receive: <<new storage, reply message>>
receive_match(m, message) ==
    CASE message.type = "CasAdd" ->
            LET r == unthreadable_add(m, message.address, message.content)
            IN  <<r[1], [type |-> "CasAddResult", val |-> r[2]]>>
      [] message.type = "CasContains" ->
            LET r == unthreadable_contains(m, message.address)
            IN  <<r[1], [type |-> "CasContainsResult", val |-> r[2]]>>
      [] message.type = "CasFetch" ->
            LET r == unthreadable_fetch(m, message.address)
            IN  <<r[1], [type |-> "CasFetchResult", val |-> r[2]]>>

\* Actor::receive: actor a handles the message at the head of its mailbox
\* and tells the reply to the sender
receive(a) ==
    /\ a <= spawned
    /\ mailbox[a] # <<>>
    /\ LET ask == Head(mailbox[a])
           r == receive_match(storage[a], ask.msg)
       IN  /\ storage' = [storage EXCEPT ![a] = r[1]]
           /\ inbox' = [inbox EXCEPT ![ask.sender] = r[2]]
    /\ mailbox' = [mailbox EXCEPT ![a] = Tail(@)]
    /\ UNCHANGED <<spawned, actor, origin, pc, call, result, snap, done,
                   asked, step, chan, eavVars, nodeVars, moreVars>>

(***************************************************************************)
(* Handles: ExampleContentAddressableStorage                               *)
(***************************************************************************)
\* a new_ref that names the actor that exists already
new_ref_same == spawned

\* new_ref: SYS.actor_of with a process unique id: a fresh actor
new_ref == spawned + 1

\* ExampleContentAddressableStorage::new() into the unused handle h
NewHandle(h) ==
    /\ actor' = [actor EXCEPT ![h] = new_ref]
    /\ origin' = [origin EXCEPT ![h] = h]
    /\ spawned' = new_ref
    /\ storage' = [storage EXCEPT ![new_ref] = HashMapNew]

\* a clone that owns a copy of the data instead of sharing the actor
CloneCopy(h, h2) ==
    /\ origin' = [origin EXCEPT ![h2] = origin[h]]
    /\ IF spawned < MaxActors
       THEN /\ actor' = [actor EXCEPT ![h2] = new_ref]
            /\ spawned' = new_ref
            /\ storage' = [storage EXCEPT ![new_ref] = storage[actor[h]]]
       ELSE /\ actor' = [actor EXCEPT ![h2] = actor[h]]
            /\ spawned' = spawned
            /\ storage' = storage

\* #[derive(Clone)]: the clone h2 of h holds a clone of h's ActorRef
CloneHandle(h, h2) ==
    /\ actor' = [actor EXCEPT ![h2] = actor[h]]
    /\ origin' = [origin EXCEPT ![h2] = origin[h]]
    /\ spawned' = spawned
    /\ storage' = storage

\* handle ids are given out in increasing order
Unused(h) ==
    /\ actor[h] = NoActor
    /\ \A g \in DOMAIN actor : g < h => actor[g] # NoActor

new(h) ==
    /\ Unused(h)
    /\ spawned < MaxActors
    /\ NewHandle(h)
    /\ UNCHANGED <<mailbox, pc, call, inbox, result, snap, done, asked,
                   step, chan, eavVars, nodeVars, moreVars>>

clone(h, h2) ==
    /\ actor[h] # NoActor
    /\ Unused(h2)
    /\ CloneHandle(h, h2)
    /\ UNCHANGED <<mailbox, pc, call, inbox, result, snap, done, asked,
                   step, chan, eavVars, nodeVars, moreVars>>

\* a tell that loses the message
tell_lost(q, m) == q

\* riker's tell: the message joins the end of the actor's mailbox
tell(q, m) == Append(q, m)

\* block_on_ask: thread t asks the actor behind handle h and blocks
block_on_ask(t, h, message, c) ==
    /\ pc[t] = "idle"
    /\ actor[h] # NoActor
    /\ mailbox' = [mailbox EXCEPT ![actor[h]] =
                       tell(@, [sender |-> t, msg |-> message])]
    /\ pc' = [pc EXCEPT ![t] = "blocked"]
    /\ call' = [call EXCEPT ![t] = c]
    /\ inbox' = [inbox EXCEPT ![t] = NoMsg]
    /\ result' = [result EXCEPT ![t] = NoResult]
    /\ snap' = [snap EXCEPT ![t] =
                    {p \in done[origin[h]] : p.address = c.address}]

\* another thread is inside add on another handle of the same actor
Racing(t, h) ==
    \E u \in DOMAIN pc :
        /\ u # t
        /\ pc[u] = "blocked"
        /\ call[u].op = "add"
        /\ call[u].handle # h
        /\ actor[call[u].handle] = actor[h]

\* first half of add: the ask
add_ask(t, h, ac) ==
    /\ block_on_ask(t, h, CasAdd(address(ac), content(ac)),
                    [op |-> "add", handle |-> h, address |-> address(ac),
                     content |-> content(ac), type |-> ac.type,
                     raced |-> Racing(t, h)])
    /\ asked' = [asked EXCEPT ![origin[h]] = @ \cup {address(ac)}]

contains_ask(t, h, addr) ==
    /\ block_on_ask(t, h, CasContains(addr),
                    [op |-> "contains", handle |-> h, address |-> addr])
    /\ asked' = asked

fetch_ask(t, h, addr, T) ==
    /\ block_on_ask(t, h, CasFetch(addr),
                    [op |-> "fetch", handle |-> h, address |-> addr,
                     type |-> T])
    /\ asked' = asked

\* unwrap_to!(response => variant): panics on any other variant
unwrap_to(response, variant) ==
    IF response.type = variant THEN response.val ELSE Panic

\* what add, contains and fetch return from the actor's response
add_result(response) == unwrap_to(response, "CasAddResult")
contains_result(response) == unwrap_to(response, "CasContainsResult")
fetch_result(response, T) ==
    LET got == unwrap_to(response, "CasFetchResult")
    IN  IF ~got.ok THEN got
        ELSE IF got.val = None THEN Ok(None)
        ELSE Ok(Some(from_content(T, got.val[1])))

call_result(c, response) ==
    CASE c.op = "add" -> add_result(response)
      [] c.op = "contains" -> contains_result(response)
      [] c.op = "fetch" -> fetch_result(response, c.type)

\* the record of the adds that returned Ok: per address the content of the
\* first add to return and the number of handles that existed then
Completed(d, c) ==
    IF \E p \in d : p.address = c.address
    THEN d
    ELSE d \cup {[address |-> c.address, content |-> c.content,
                  handles |-> Cardinality({h \in DOMAIN actor :
                                              actor[h] # NoActor})]}

\* second half of add, contains and fetch: the response arrived, the call
\* returns to thread t
call_return(t) ==
    /\ pc[t] = "blocked"
    /\ inbox[t] # NoMsg
    /\ LET r == call_result(call[t], inbox[t])
           f == origin[call[t].handle]
       IN  /\ result' = [result EXCEPT ![t] = r]
           /\ done' = IF call[t].op = "add" /\ r.ok
                      THEN [done EXCEPT ![f] = Completed(@, call[t])]
                      ELSE done
    /\ inbox' = [inbox EXCEPT ![t] = NoMsg]

(***************************************************************************)
(* EntityAttributeValueStorage, as the EAV test suites use it.             *)
(***************************************************************************)
MaxTriples == 3

\* the addresses and attributes of the EAV test suites
EavAddresses == {Hash("foo"), Hash("bar"), Hash("baz")}
Attributes == {"one_to_many", "many_to_one"}

\* EntityAttributeValue::new
EntityAttributeValue(e, a, v) == [entity |-> e, attribute |-> a, value |-> v]

Triples ==
    {EntityAttributeValue(e, a, v) :
        e \in EavAddresses, a \in Attributes, v \in EavAddresses}

OptionOf(S) == {None} \cup {Some(x) : x \in S}

NoEavCall == [op |-> "none"]

\* an add_eav that keeps one value per entity and attribute
add_eav_one_value(set, eav) ==
    <<{x \in set : ~(x.entity = eav.entity /\ x.attribute = eav.attribute)}
          \cup {eav},
      Ok(<<>>)>>

\* an add_eav that keeps one entity per attribute and value
add_eav_one_entity(set, eav) ==
    <<{x \in set : ~(x.value = eav.value /\ x.attribute = eav.attribute)}
          \cup {eav},
      Ok(<<>>)>>

\* an add_eav that takes a stored triple out again
add_eav_toggle(set, eav) ==
    <<IF eav \in set THEN set \ {eav} ELSE set \cup {eav}, Ok(<<>>)>>

\* add_eav: insert into the set of triples; <<new set, result>>
add_eav(set, eav) == <<set \cup {eav}, Ok(<<>>)>>

\* a fetch_eav that does not apply the constraint on the value
fetch_eav_any_value(set, e, a, v) ==
    Ok({x \in {y \in set : e = None \/ Some(y.entity) = e} :
           a = None \/ Some(x.attribute) = a})

\* fetch_eav: the stored triples filtered by entity, then by attribute, then
\* by value, a constraint of None letting every triple pass
fetch_eav(set, e, a, v) ==
    LET byEntity == {x \in set : e = None \/ Some(x.entity) = e}
        byAttribute == {x \in byEntity : a = None \/ Some(x.attribute) = a}
        byValue == {x \in byAttribute : v = None \/ Some(x.value) = v}
    IN  Ok(byValue)

EavInit ==
    /\ eavStorage = {}
    /\ eavEver = {}
    /\ eavRepeat = FALSE
    /\ eavCall = NoEavCall


(***************************************************************************)
(* The network handler (core/src/network/handler/mod.rs): the closure      *)
(* create_handler builds, called once for every network event.             *)
(***************************************************************************)
\* this node's dna address and agent id, and the others on the network
my_dna_address == "dna_1"
DnaAddresses == {my_dna_address, "dna_2"}
my_agent_id == "agent_1"
AgentIds == {my_agent_id, "agent_2", ""}

\* the entries a store request may be about
EntryAddresses == {"entry_1", "entry_2"}

\* opaque bytes of a request: JSON of the expected type, or anything else
Payloads == {"json", "garbage"}

\* the variants of Lib3hServerProtocol the handler names in its match
SpaceKinds ==
    {"FailureResult", "HandleStoreEntryAspect", "HandleFetchEntry",
     "FetchEntryResult", "HandleQueryEntry", "QueryEntryResult",
     "HandleSendDirectMessage", "SendDirectMessageResult",
     "HandleGetAuthoringEntryList", "HandleGetGossipingEntryList"}
AgentKinds ==
    {"QueryEntryResult", "HandleSendDirectMessage", "SendDirectMessageResult",
     "HandleGetAuthoringEntryList", "HandleGetGossipingEntryList"}
\* the variants the match leaves to `_ => {}`
OtherKinds == {"SuccessResult", "Disconnected"}
Kinds == SpaceKinds \cup {"Connected"} \cup OtherKinds

\* a protocol message.  agent_id is the field the handler compares with
\* this node's id for the kind: requester_agent_id, to_agent_id or
\* provider_agent_id.
ProtocolMessages ==
    [kind : Kinds, space_address : DnaAddresses, agent_id : AgentIds,
     entry_address : EntryAddresses, payload : Payloads]

\* what the network thread hands to the closure: an error, or a message
\* that is a Lib3hServerProtocol or is not
NetErr == [res |-> "err"]
NotProtocol == [res |-> "ok", protocol |-> FALSE]
Inbound ==
    {NetErr, NotProtocol}
        \cup {[res |-> "ok", protocol |-> TRUE, data |-> d] :
                 d \in ProtocolMessages}

Err(e) == [ok |-> FALSE, err |-> e]

\* Lib3hServerProtocol::try_from(message)
Lib3hServerProtocol_try_from(message) ==
    IF message.protocol THEN Ok(message.data) ELSE Err("not a protocol message")

\* Context: the agent id and whether the logger lets debug lines through
Contexts == [agent_id : {my_agent_id}, debug : BOOLEAN]

LogLine(level, text) == [level |-> level, text |-> text]
log_debug(context, text) ==
    IF context.debug THEN <<LogLine("debug", text)>> ELSE <<>>
log_warn(context, text) == <<LogLine("warn", text)>>
\* a log_error that writes its line at debug level
log_error_at_debug(context, text) ==
    IF context.debug THEN <<LogLine("debug", text)>> ELSE <<>>
log_error(context, text) == <<LogLine("error", text)>>

\* an is_my_dna that lets every space through
is_my_dna_any(my_dna, dna_address) == TRUE

is_my_dna(my_dna, dna_address) == my_dna = dna_address

\* an is_my_id that lets every agent id through
is_my_id_any(context, agent_id) == [val |-> TRUE, log |-> <<>>]

\* is_my_id: <<the answer, the lines logged>>
is_my_id(context, agent_id) ==
    IF agent_id # "" /\ context.agent_id # agent_id
    THEN [val |-> FALSE,
          log |-> log_debug(context, "net/handle: ignoring, same id")]
    ELSE [val |-> TRUE, log |-> <<>>]

\* EntryAspect::try_from(aspect_json), DirectMessage::try_from(message_json)
payload_try_from(payload) ==
    IF payload = "json" THEN Ok(payload) ELSE Err("cannot decode")

\* Result::unwrap
unwrap(r) == IF r.ok THEN r.val ELSE Panic

\* format_store_data: the formatted request, or the panic of its unwraps
format_store_data(data) ==
    LET aspect == payload_try_from(data.payload)
    IN  IF aspect.ok
        THEN Ok(<<"StoreEntryAspectData", data, unwrap(aspect)>>)
        ELSE unwrap(aspect)

\* format_message_data: the formatted message, or the panic of its unwraps
format_message_data(data) ==
    LET message == payload_try_from(data.payload)
    IN  IF message.ok
        THEN Ok(<<"MessageData", data, unwrap(message)>>)
        ELSE unwrap(message)

\* what one call of the closure does: what it returns (Ok(()) or a panic),
\* the handlers it invoked and the lines it logged
Outcome(ret, handlers, log) ==
    [ret |-> ret, handlers |-> handlers, log |-> log]
ReturnOk == Outcome(Ok(<<>>), <<>>, <<>>)

\* log_debug!(context, "...", f) followed by a handler: f, Ok(the text) or
\* a panic, is evaluated when the line is logged
debug_then(context, text, formatted, handlers) ==
    IF context.debug /\ ~formatted.ok
    THEN Outcome(Panic, <<>>, <<>>)
    ELSE Outcome(Ok(<<>>), handlers,
                 log_debug(context, <<text, formatted>>))

\* an arm of the match that checks the space address and the agent id
for_me(context, my_dna, data, text, formatted, handlers) ==
    IF ~is_my_dna(my_dna, data.space_address)
    THEN ReturnOk
    ELSE LET mine == is_my_id(context, data.agent_id)
         IN  IF ~mine.val
             THEN Outcome(Ok(<<>>), <<>>, mine.log)
             ELSE debug_then(context, text, formatted, handlers)

\* an arm for a list request that answers with the authoring list
list_for_me_authoring(context, my_dna, data, handlers) ==
    IF my_dna # data.space_address
    THEN ReturnOk
    ELSE IF data.agent_id # "" /\ context.agent_id # data.agent_id
    THEN Outcome(Ok(<<>>), <<>>,
                 log_debug(context, "net/handle: ignoring, same id"))
    ELSE Outcome(Ok(<<>>), <<"handle_get_authoring_list">>, <<>>)

\* an arm of the match for a list request: no line is logged
list_for_me(context, my_dna, data, handlers) ==
    IF ~is_my_dna(my_dna, data.space_address)
    THEN ReturnOk
    ELSE LET mine == is_my_id(context, data.agent_id)
         IN  IF ~mine.val
             THEN Outcome(Ok(<<>>), <<>>, mine.log)
             ELSE Outcome(Ok(<<>>), handlers, <<>>)

\* the match of the closure on the decoded message
dispatch(context, my_dna, data) ==
    CASE data.kind = "FailureResult" ->
            IF ~is_my_dna(my_dna, data.space_address)
            THEN ReturnOk
            ELSE Outcome(Ok(<<>>), <<>>,
                     log_warn(context, <<"net/handle: FailureResult", data>>))
      [] data.kind = "HandleStoreEntryAspect" ->
            IF ~is_my_dna(my_dna, data.space_address)
            THEN ReturnOk
            ELSE debug_then(context, "net/handle: HandleStoreEntryAspect",
                            format_store_data(data), <<"handle_store">>)
      [] data.kind = "HandleFetchEntry" ->
            IF ~is_my_dna(my_dna, data.space_address)
            THEN ReturnOk
            ELSE debug_then(context, "net/handle: HandleFetchEntry", Ok(data),
                            <<"handle_fetch_entry">>)
      [] data.kind = "FetchEntryResult" ->
            IF ~is_my_dna(my_dna, data.space_address)
            THEN ReturnOk
            ELSE Outcome(Ok(<<>>), <<>>,
                     log_error(context,
                         <<"net/handle: unexpected HandleFetchEntryResult",
                           data>>))
      [] data.kind = "HandleQueryEntry" ->
            IF ~is_my_dna(my_dna, data.space_address)
            THEN ReturnOk
            ELSE debug_then(context, "net/handle: HandleQueryEntry", Ok(data),
                            <<"handle_query_entry_data">>)
      [] data.kind = "QueryEntryResult" ->
            for_me(context, my_dna, data, "net/handle: HandleQueryEntryResult",
                   Ok(data), <<"handle_query_entry_result">>)
      [] data.kind = "HandleSendDirectMessage" ->
            for_me(context, my_dna, data, "net/handle: HandleSendMessage",
                   format_message_data(data), <<"handle_send_message">>)
      [] data.kind = "SendDirectMessageResult" ->
            for_me(context, my_dna, data, "net/handle: SendMessageResult",
                   format_message_data(data),
                   <<"handle_send_message_result">>)
      [] data.kind = "Connected" ->
            Outcome(Ok(<<>>), <<>>,
                    log_debug(context, <<"net/handle: Connected", data>>))
      [] data.kind = "HandleGetAuthoringEntryList" ->
            list_for_me(context, my_dna, data,
                        <<"handle_get_authoring_list">>)
      [] data.kind = "HandleGetGossipingEntryList" ->
            list_for_me(context, my_dna, data, <<"handle_get_gossip_list">>)
      [] OTHER -> ReturnOk

\* a closure that unwraps the decoded message without looking at it first
create_handler_unwrap(context, my_dna, message) ==
    IF message.res = "err"
    THEN Outcome(Panic, <<>>, <<>>)
    ELSE LET maybe_json_msg == Lib3hServerProtocol_try_from(message)
         IN  IF ~maybe_json_msg.ok
             THEN Outcome(unwrap(maybe_json_msg), <<>>, <<>>)
             ELSE dispatch(context, my_dna, unwrap(maybe_json_msg))

\* create_handler: the closure, applied to one network event
create_handler(context, my_dna, message) ==
    IF message.res = "err"
    THEN Outcome(Panic, <<>>, <<>>)
    ELSE LET maybe_json_msg == Lib3hServerProtocol_try_from(message)
         IN  IF ~maybe_json_msg.ok
             THEN ReturnOk
             ELSE dispatch(context, my_dna, unwrap(maybe_json_msg))

\* handle_store: holds the aspect of the request when its bytes decode
handle_store(held, data) ==
    IF payload_try_from(data.payload).ok
    THEN held \cup {data.entry_address}
    ELSE held

NoNetCall == [ret |-> NoResult]

NetInit == net = [held |-> {}, call |-> NoNetCall]

(***************************************************************************)
(* The aspect aggregation (core/src/network/handler/mod.rs):               *)
(* get_content_aspect and get_meta_aspects over what the node holds.       *)
(***************************************************************************)
MaxHeld == 2       \* entries the node holds
MaxMetas == 2      \* triples in the node's dht
MaxHeaders == 1    \* headers held for one entry

AggAddresses == {"a1", "a2", "a3"}
\* the entry the aspects are fetched for, and the entries triples point to
TargetAddress == "a1"
ValueAddresses == AggAddresses \ {TargetAddress}

\* entries by what decides the code's path: an app entry of a type that
\* can be published, one of a type that cannot, and the link entries
EntryKinds == {"App", "PrivateApp", "LinkAdd", "LinkRemove"}
NoEntry == "absent"
Entry(kind, addr) == [kind |-> kind, address |-> addr]
ChainHeader(addr, n) == <<"header", addr, n>>
HeadersOf(addr, n) == [i \in 1..n |-> ChainHeader(addr, i)]

\* Attribute: the three the aggregation keeps, and one it does not
MetaAttributes == {"LinkTag", "RemovedLink", "CrudLink", "CrudStatus"}
MetaTriples ==
    {EntityAttributeValue(TargetAddress, a, v) :
        a \in MetaAttributes, v \in ValueAddresses}

\* HolochainError
EntryNotFoundLocally == "EntryNotFoundLocally"
EntryIsPrivate == "EntryIsPrivate"
ErrorGeneric(text) == <<"ErrorGeneric", text>>
Timeout == <<"Timeout">>
LinkedEntryNotFound ==
    ErrorGeneric("Entry linked in EAV not found! This should never happen.")

\* EntryAspect
Content(e, header) == [aspect |-> "Content", entry |-> e, header |-> header]
LinkAdd(e, header) == [aspect |-> "LinkAdd", entry |-> e, header |-> header]
LinkRemove(e, header) ==
    [aspect |-> "LinkRemove", entry |-> e, header |-> header]
Update(e, header) == [aspect |-> "Update", entry |-> e, header |-> header]

\* entry_type().can_publish(): whether entries of the type may be published
can_publish(e) == e.kind # "PrivateApp"

\* nucleus::actions::get_entry::get_entry_with_meta: the entry held locally
get_entry_with_meta(dht, addr) ==
    IF dht.entries[addr] = NoEntry
    THEN Ok(None)
    ELSE Ok(Some(Entry(dht.entries[addr], addr)))

\* state.get_headers(address): the headers held for the address, or the
\* error of the lookup
get_headers(dht, addr, lookup) ==
    IF lookup = "err"
    THEN Err("get_headers")
    ELSE Ok(HeadersOf(addr, dht.headers[addr]))

\* a get_content_aspect that does not ask whether the entry can be published
get_content_aspect_any_type(dht, entry_address, lookup) ==
    LET entry_with_meta == get_entry_with_meta(dht, entry_address).val
        headers == get_headers(dht, entry_address, lookup)
    IN  IF entry_with_meta = None
        THEN Err(EntryNotFoundLocally)
        ELSE IF ~headers.ok
        THEN Err(ErrorGeneric(<<"Error trying to get headers", headers.err>>))
        ELSE IF Len(headers.val) = 0
        THEN Panic
        ELSE Ok(Content(entry_with_meta[1], headers.val[1]))

\* get_content_aspect: Ok(the Content aspect), Err(the error), or the panic
\* of headers[0] on an empty list
get_content_aspect(dht, entry_address, lookup) ==
    LET entry_with_meta == get_entry_with_meta(dht, entry_address).val
        headers == get_headers(dht, entry_address, lookup)
    IN  IF entry_with_meta = None
        THEN Err(EntryNotFoundLocally)
        ELSE IF ~can_publish(entry_with_meta[1])
        THEN Err(EntryIsPrivate)
        ELSE IF ~headers.ok
        THEN Err(ErrorGeneric(<<"Error trying to get headers", headers.err>>))
        ELSE IF Len(headers.val) = 0
        THEN Panic
        ELSE Ok(Content(entry_with_meta[1], headers.val[1]))

\* dht().get_all_metas(entry_address): the triples of the entity, in the
\* order of the index
get_all_metas(dht, entry_address) ==
    SelectSeq(dht.metas, LAMBDA eavi : eavi.entity = entry_address)

\* a filter that does not keep the LinkTag triples
is_meta_attribute_no_link_tag(attribute) ==
    attribute \in {"RemovedLink", "CrudLink"}

\* the filter of get_meta_aspects on the attribute of a triple
is_meta_attribute(attribute) ==
    attribute \in {"LinkTag", "RemovedLink", "CrudLink"}

\* what the network answers when the entry is not held locally
NetworkAnswers == {Ok(None), Err(Timeout)}

\* get_entry_with_meta_workflow(context, address, timeout): the entry held
\* locally with its headers, else the answer of the network within the
\* timeout
get_entry_with_meta_workflow(dht, addr, answer) ==
    IF dht.entries[addr] # NoEntry
    THEN Ok(Some([entry |-> Entry(dht.entries[addr], addr),
                  headers |-> HeadersOf(addr, dht.headers[addr])]))
    ELSE answer

\* a closure that picks the aspect by the shape of the resolved entry
meta_aspect_by_shape(dht, eavi, answer) ==
    LET resolved == get_entry_with_meta_workflow(dht, eavi.value, answer)
    IN  IF ~resolved.ok
        THEN resolved
        ELSE IF resolved.val = None
        THEN Err(LinkedEntryNotFound)
        ELSE LET value_entry == resolved.val[1]
             IN  IF Len(value_entry.headers) = 0
                 THEN Panic
                 ELSE LET header == value_entry.headers[1]
                          e == value_entry.entry
                      IN  CASE e.kind = "LinkAdd" -> Ok(LinkAdd(e, header))
                            [] e.kind = "LinkRemove" ->
                                 Ok(LinkRemove(e, header))
                            [] OTHER -> Ok(Update(e, header))

\* the closure get_meta_aspects maps over the matching triples: Ok(the
\* aspect), Err(the error), or the panic of headers[0], unwrap_to! or
\* unreachable!
meta_aspect(dht, eavi, answer) ==
    LET resolved == get_entry_with_meta_workflow(dht, eavi.value, answer)
    IN  IF ~resolved.ok
        THEN resolved
        ELSE IF resolved.val = None
        THEN Err(LinkedEntryNotFound)
        ELSE LET value_entry == resolved.val[1]
             IN  IF Len(value_entry.headers) = 0
                 THEN Panic
                 ELSE LET header == value_entry.headers[1]
                          e == value_entry.entry
                      IN  CASE eavi.attribute = "LinkTag" ->
                                 IF e.kind = "LinkAdd"
                                 THEN Ok(LinkAdd(e, header))
                                 ELSE Panic
                            [] eavi.attribute = "RemovedLink" ->
                                 IF e.kind = "LinkRemove"
                                 THEN Ok(LinkRemove(e, header))
                                 ELSE Panic
                            [] eavi.attribute = "CrudLink" ->
                                 Ok(Update(e, header))
                            [] OTHER -> Panic

Min(S) == CHOOSE x \in S : \A y \in S : x <= y

\* get_meta_aspects.  answers[i] is what the network answers to the i-th
\* resolution.  Yields the matching triples, the result of the closure for
\* each triple it was run for, and what the call returns: Ok(the aspects),
\* Err(the first error), or the panic of the closure.
get_meta_aspects(dht, entry_address, answers) ==
    LET eavis == get_all_metas(dht, entry_address)
        matching ==
            SelectSeq(eavis, LAMBDA eavi : is_meta_attribute(eavi.attribute))
        mapped ==
            [i \in 1..Len(matching) |->
                meta_aspect(dht, matching[i], answers[i])]
        panics == {i \in 1..Len(matching) : mapped[i] = Panic}
        ran == IF panics = {} THEN Len(matching) ELSE Min(panics)
        errors == SelectSeq(mapped, LAMBDA r : ~r.ok)
        aspects == SelectSeq(mapped, LAMBDA r : r.ok)
    IN  [matching |-> matching,
         results |-> SubSeq(mapped, 1, ran),
         ret |-> IF panics # {}
                 THEN Panic
                 ELSE IF Len(errors) > 0
                 THEN errors[1]
                 ELSE Ok([i \in 1..Len(aspects) |-> aspects[i].val])]

\* handle_fetch_entry: the Content aspect followed by the meta aspects
handle_fetch_entry(dht, entry_address, lookup, answers) ==
    LET content_aspect == get_content_aspect(dht, entry_address, lookup)
        meta_aspects == get_meta_aspects(dht, entry_address, answers).ret
    IN  IF ~content_aspect.ok
        THEN content_aspect
        ELSE IF ~meta_aspects.ok
        THEN meta_aspects
        ELSE Ok(<<content_aspect.val>> \o meta_aspects.val)

NoAggCall == [op |-> "none"]

AggInit ==
    agg = [entries |-> [a \in AggAddresses |-> NoEntry],
           headers |-> [a \in AggAddresses |-> 0],
           metas |-> <<>>,
           call |-> NoAggCall,
           once |-> FALSE]

NodeInit == NetInit /\ AggInit

(***************************************************************************)
(* EntryAspect (core/src/network/entry_aspect.rs) and its conversion into  *)
(* the EntryAspectData of the wire.                                        *)
(***************************************************************************)
\* width of the integers of a timestamp in the model: seconds are the
\* signed integers of TsBits bits, publish_ts the unsigned ones
TsBits == 3

\* instants, in half seconds, whose whole seconds fit the signed integers
Instants == (0 - 2 ^ TsBits) .. (2 ^ TsBits - 1)

\* a ChainHeader as the conversion sees it: its entry type and timestamp
AspectHeaders == [entry_type : {"App", "LinkAdd"}, timestamp : Instants]

AspectEntries == {"entry_1", "entry_2"}
AspectLinks == {"link_1"}
AspectRemovals == {<<"link_1", <<"removal_1">>>>}

HeaderOnly(header) == [aspect |-> "Header", header |-> header]
Deletion(header) == [aspect |-> "Deletion", header |-> header]

\* the six variants of EntryAspect
EntryAspects ==
    {Content(e, h) : e \in AspectEntries, h \in AspectHeaders}
        \cup {HeaderOnly(h) : h \in AspectHeaders}
        \cup {LinkAdd(l, h) : l \in AspectLinks, h \in AspectHeaders}
        \cup {LinkRemove(r, h) : r \in AspectRemovals, h \in AspectHeaders}
        \cup {Update(e, h) : e \in AspectEntries, h \in AspectHeaders}
        \cup {Deletion(h) : h \in AspectHeaders}

\* EntryAspect::type_hint
type_hint(a) ==
    CASE a.aspect = "Content" -> "content"
      [] a.aspect = "Header" -> "header"
      [] a.aspect = "LinkAdd" -> "link_add"
      [] a.aspect = "LinkRemove" -> "link_remove"
      [] a.aspect = "Update" -> "update"
      [] a.aspect = "Deletion" -> "deletion"

\* EntryAspect::header
header(a) == a.header

\* the JSON of an entry, link data or header
JsonOf(x) == <<"json", x>>

\* a serialization that writes an Update under the name of Content
EntryAspect_content_one_tag(a) ==
    IF a.aspect \in {"Header", "Deletion"}
    THEN <<a.aspect, JsonOf(a.header)>>
    ELSE <<IF a.aspect = "Update" THEN "Content" ELSE a.aspect,
           <<JsonOf(a.entry), JsonOf(a.header)>>>>

\* AddressableContent::content: the JSON of the derived Serialize, the name
\* of the variant with its fields
EntryAspect_content(a) ==
    IF a.aspect \in {"Header", "Deletion"}
    THEN <<a.aspect, JsonOf(a.header)>>
    ELSE <<a.aspect, <<JsonOf(a.entry), JsonOf(a.header)>>>>

\* JSON that is not the JSON of an EntryAspect
NotAnAspect == <<"garbage", <<>>>>

\* AddressableContent::try_from_content: the derived Deserialize
EntryAspect_try_from_content(c) ==
    CASE c[1] \in {"Header", "Deletion"} ->
            Ok([aspect |-> c[1], header |-> c[2][2]])
      [] c[1] \in {"Content", "LinkAdd", "LinkRemove", "Update"} ->
            Ok([aspect |-> c[1], entry |-> c[2][1][2],
                header |-> c[2][2][2]])
      [] OTHER -> Err("JsonError")

\* AddressableContent::address of an EntryAspect
EntryAspect_address(a) == Hash(EntryAspect_content(a))

\* JsonString::to_bytes
to_bytes(json) == <<"bytes", json>>

\* DateTime::timestamp: the whole seconds of an instant
timestamp_seconds(instant) == instant \div 2

\* `as u64` on the seconds
as_u64(seconds) == seconds % (2 ^ TsBits)

\* an into that takes the address of what the aspect carries
into_EntryAspectData_of_payload(a) ==
    [type_hint |-> type_hint(a),
     aspect_address |->
         IF a.aspect \in {"Header", "Deletion"}
         THEN Hash(JsonOf(a.header))
         ELSE Hash(JsonOf(a.entry)),
     aspect |-> to_bytes(EntryAspect_content(a)),
     publish_ts |-> as_u64(timestamp_seconds(header(a).timestamp))]

\* impl Into<EntryAspectData> for EntryAspect
into_EntryAspectData(a) ==
    [type_hint |-> type_hint(a),
     aspect_address |-> EntryAspect_address(a),
     aspect |-> to_bytes(EntryAspect_content(a)),
     publish_ts |-> as_u64(timestamp_seconds(header(a).timestamp))]

NoAspectCall == [op |-> "none"]

AspectInit == asp = NoAspectCall

(***************************************************************************)
(* The keystore and keygen (cli/src/cli/keygen.rs)                         *)
(***************************************************************************)
Passphrases == {"secret", "other"}
\* what the user types at the two prompts
Typed == Passphrases \X Passphrases
PassphraseInputs == {None} \cup {Some(w) : w \in Passphrases}
\* a root seed that is the base64 of SEED_SIZE bytes
RootSeeds == {"seed_a"}
NotBase64 == "not base64"
TooLong == "too long"
RootSeedInputs == {None} \cup {Some(r) : r \in RootSeeds \cup {NotBase64, TooLong}}
DerivationIndexes == {None, Some(0), Some(1)}
\* the seeds Keystore::new_standalone can draw
RandomSeeds == {"seed_r"}
PRIMARY_KEYBUNDLE_ID == "primary_keybundle"
test_key == <<"test.key">>
PathInputs == {None, Some(test_key)}
keys_directory(name) == <<"keys_directory", name>>
Exit == [ok |-> FALSE, val |-> "exit"]

\* a seed: the root it comes from and the derivations applied to it
Seed(root, derivation) == [root |-> root, derivation |-> derivation]
Secret_Seed(seed) == [kind |-> "Seed", seed |-> seed]
Secret_Keybundle(seed) == [kind |-> "Keybundle", seed |-> seed]
PubKeyOf(seed) == <<"pub", seed>>

\* Keystore: the passphrase its manager gives, the passphrase its secrets
\* are encrypted with, and the secrets by identifier
Keystore_new(passphrase) ==
    Ok([passphrase |-> passphrase, check |-> passphrase, secrets |-> {}])

Ids(keystore) == {s.id : s \in keystore.secrets}

Keystore_add(keystore, id, secret) ==
    IF id \in Ids(keystore)
    THEN Err("identifier already used")
    ELSE Ok([keystore EXCEPT
                !.secrets = @ \cup {[id |-> id, secret |-> secret]}])

Keystore_get(keystore, id) ==
    IF keystore.passphrase # keystore.check
    THEN Err("passphrase check failed")
    ELSE IF id \notin Ids(keystore)
    THEN Err("unknown identifier")
    ELSE Ok((CHOOSE s \in keystore.secrets : s.id = id).secret)

Keystore_add_seed_from_seed(keystore, src, dst, context, index) ==
    LET src_secret == Keystore_get(keystore, src)
    IN  IF ~src_secret.ok THEN src_secret
        ELSE IF src_secret.val.kind # "Seed"
        THEN Err("source secret is not a seed")
        ELSE Keystore_add(keystore, dst,
                 Secret_Seed(Seed(src_secret.val.seed.root,
                     Append(src_secret.val.seed.derivation,
                            <<context, index>>))))

Keystore_add_keybundle_from_seed(keystore, src, dst) ==
    LET src_secret == Keystore_get(keystore, src)
    IN  IF ~src_secret.ok THEN src_secret
        ELSE IF src_secret.val.kind # "Seed"
        THEN Err("source secret is not a seed")
        ELSE LET added == Keystore_add(keystore, dst,
                              Secret_Keybundle(src_secret.val.seed))
             IN  IF ~added.ok THEN added
                 ELSE Ok([keystore |-> added.val,
                          pub_key |-> PubKeyOf(src_secret.val.seed)])

Keystore_new_standalone(passphrase, random) ==
    LET seeded == Keystore_add(Keystore_new(passphrase).val, "root_seed",
                               Secret_Seed(Seed(random, <<>>)))
    IN  Keystore_add_keybundle_from_seed(seeded.val, "root_seed",
                                         PRIMARY_KEYBUNDLE_ID)

\* the files: a set of [path, content], one per path
FileAt(files, path) == {f \in files : f.path = path}

Keystore_save(files, keystore, path, io_ok) ==
    IF ~io_ok THEN Err("io")
    ELSE Ok((files \ FileAt(files, path))
            \cup {[path |-> path,
                   content |-> [check |-> keystore.check,
                                secrets |-> keystore.secrets]]})

Keystore_new_from_file(files, path, passphrase) ==
    IF FileAt(files, path) = {} THEN Err("io")
    ELSE LET file == CHOOSE f \in FileAt(files, path) : TRUE
         IN  Ok([passphrase |-> passphrase, check |-> file.content.check,
                 secrets |-> file.content.secrets])

Keystore_get_keybundle(keystore, id) ==
    LET secret == Keystore_get(keystore, id)
    IN  IF ~secret.ok THEN secret
        ELSE IF secret.val.kind # "Keybundle"
        THEN Err("secret is not a keybundle")
        ELSE secret

\* the root-seed branch that saves the keystore before it adds the keybundle
device_keystore_without_keybundle(passphrase, root_seed, index) ==
    IF index = None \/ root_seed = TooLong THEN Panic
    ELSE IF root_seed = NotBase64 THEN Err("DecodeError")
    ELSE Ok([keystore |->
                Keystore_add(Keystore_new(passphrase).val, "device_seed",
                    Secret_Seed(Seed(root_seed,
                        <<<<"HCDEVICE", index[1]>>>>))).val,
             pub_key |->
                PubKeyOf(Seed(root_seed, <<<<"HCDEVICE", index[1]>>>>))])

\* keygen, the root-seed branch: the device seed is derived in a transient
\* keystore and the keybundle is made from it in the keystore that is saved
device_keystore(passphrase, root_seed, index) ==
    IF index = None THEN Panic
    ELSE
    LET transient_keystore == Keystore_new(passphrase)
    IN  IF ~transient_keystore.ok THEN transient_keystore
        ELSE IF root_seed = NotBase64 THEN Err("DecodeError")
        ELSE IF root_seed = TooLong THEN Panic
        ELSE
        LET rooted == Keystore_add(transient_keystore.val, "root_seed",
                                   Secret_Seed(Seed(root_seed, <<>>)))
        IN  IF ~rooted.ok THEN rooted
            ELSE
            LET derived == Keystore_add_seed_from_seed(rooted.val,
                               "root_seed", "device_seed", "HCDEVICE",
                               index[1])
            IN  IF ~derived.ok THEN derived
                ELSE
                LET keystore == Keystore_new(passphrase)
                    device_seed == Keystore_get(derived.val, "device_seed")
                IN  IF ~keystore.ok THEN keystore
                    ELSE IF ~device_seed.ok THEN device_seed
                    ELSE
                    LET added == Keystore_add(keystore.val, "device_seed",
                                              device_seed.val)
                    IN  IF ~added.ok THEN added
                        ELSE Keystore_add_keybundle_from_seed(added.val,
                                 "device_seed", PRIMARY_KEYBUNDLE_ID)

\* keygen: its outcome, the files it leaves, and the path and passphrase it
\* used
keygen(files, path, passphrase, typed, root_seed, index, random, io_ok) ==
    IF passphrase = None /\ typed[1] # typed[2]
    THEN [ret |-> Exit, files |-> files]
    ELSE
    LET word == IF passphrase = None THEN typed[1] ELSE passphrase[1]
        made == IF root_seed # None
                THEN device_keystore(word, root_seed[1], index)
                ELSE Keystore_new_standalone(word, random)
    IN  IF ~made.ok THEN [ret |-> made, files |-> files]
        ELSE
        LET p == IF path = None THEN keys_directory(made.val.pub_key)
                 ELSE path[1]
            saved == Keystore_save(files, made.val.keystore, p, io_ok)
        IN  IF ~saved.ok THEN [ret |-> saved, files |-> files]
            ELSE [ret |-> Ok(<<>>), files |-> saved.val, path |-> p,
                  passphrase |-> word]

\* the test's reading back: new_from_file and get_keybundle
load(files, path, passphrase) ==
    LET keystore == Keystore_new_from_file(files, path, passphrase)
    IN  IF ~keystore.ok THEN keystore
        ELSE Keystore_get_keybundle(keystore.val, PRIMARY_KEYBUNDLE_ID)

NoCliCall == [op |-> "none"]

CliInit == cli = [files |-> {}, call |-> NoCliCall]

(***************************************************************************)
(* Committing link lists to an instance (core/src/link_tests.rs)           *)
(***************************************************************************)
MaxLinks == 3
MaxProcessed == 2

Link_new(base, target, link_type, tag) ==
    [base |-> base, target |-> target, link_type |-> link_type, tag |-> tag]
create_example_link == Link_new("12", "34", "fake", "fake-tag")
create_test_link_a == create_example_link
create_test_link_b == Link_new("56", "78", "faux", "fake-tag")
create_test_link_c == Link_new("90", "ab", "fake", "fake-tag")
TestLinks == {create_test_link_a, create_test_link_b, create_test_link_c}
\* the slices LinkList::new is given
LinkSlices == UNION {[1..n -> TestLinks] : n \in 1..MaxLinks}
LinkList_new(links) == [links |-> links]
Entry_LinkList(link_list) ==
    [entry_type |-> "LinkList", content |-> JsonOf(link_list)]
Action_Commit(entry) ==
    [action |-> "Commit", entry |-> entry, link_update_delete |-> None,
     provenances |-> <<>>]
\* ActionWrapper::new: the action under an id of its own
ActionWrapper_new(action, id) == [action |-> action, id |-> id]
NoAction == [action |-> "none"]

\* Instance::new: a state with an empty history
Instance_new == {}

\* an instance that does not record the action
process_action_unrecorded(history, action_wrapper) == history

\* Instance::process_action: the reduced state has the action in its history
process_action(history, action_wrapper) == history \cup {action_wrapper}

NoInstCall == [op |-> "none"]

InstInit ==
    inst = [made |-> FALSE, history |-> {}, processed |-> 0,
            commit_action |-> NoAction, next_id |-> 1, call |-> NoInstCall]

MoreInit == AspectInit /\ CliInit /\ InstInit

(***************************************************************************)
(* Spec: threads calling add, contains and fetch through the handles of    *)
(* one store: the handle built by new() and its clones.                    *)
(***************************************************************************)
Init ==
    /\ storage = [a \in Actors |-> HashMapNew]
    /\ spawned = 1
    /\ actor = [h \in Handles |-> IF h = 1 THEN 1 ELSE NoActor]
    /\ origin = [h \in Handles |-> h]
    /\ mailbox = [a \in Actors |-> <<>>]
    /\ pc = [t \in Callers |-> "idle"]
    /\ call = [t \in Callers |-> NoCall]
    /\ inbox = [t \in Callers |-> NoMsg]
    /\ result = [t \in Callers |-> NoResult]
    /\ snap = [t \in Callers |-> {}]
    /\ done = [h \in Handles |-> {}]
    /\ asked = [h \in Handles |-> {}]
    /\ step = <<>>
    /\ chan = <<>>
    /\ EavInit
    /\ NodeInit
    /\ MoreInit

Clone == \E h, h2 \in Handles : clone(h, h2)

Add ==
    \E t \in Callers, h \in Handles, ac \in Addressables :
        /\ add_ask(t, h, ac)
        /\ UNCHANGED <<storage, spawned, actor, origin, done, step, chan,
                       eavVars, nodeVars, moreVars>>

Contains ==
    \E t \in Callers, h \in Handles, addr \in Addresses :
        /\ contains_ask(t, h, addr)
        /\ UNCHANGED <<storage, spawned, actor, origin, done, step, chan,
                       eavVars, nodeVars, moreVars>>

Fetch ==
    \E t \in Callers, h \in Handles, c \in Contents :
        /\ fetch_ask(t, h, Hash(c), TypeOf(c))
        /\ UNCHANGED <<storage, spawned, actor, origin, done, step, chan,
                       eavVars, nodeVars, moreVars>>

Receive == \E a \in Actors : receive(a)

\* the call of thread t returns
ReturnTo(t) ==
    /\ call_return(t)
    /\ pc' = [pc EXCEPT ![t] = "idle"]
    /\ UNCHANGED <<storage, spawned, actor, origin, mailbox, call, snap,
                   asked, step, chan, eavVars, nodeVars, moreVars>>

Return == \E t \in Callers : ReturnTo(t)

Next == Clone \/ Add \/ Contains \/ Fetch \/ Receive \/ Return

Spec == Init /\ [][Next]_vars

(***************************************************************************)
(* SpecLive: Spec under fair scheduling: an actor with a message in its    *)
(* mailbox handles it, and a thread whose reply has arrived returns.       *)
(***************************************************************************)
Fairness ==
    /\ \A a \in Actors : WF_vars(receive(a))
    /\ \A t \in Callers : WF_vars(ReturnTo(t))

SpecLive == Init /\ [][Next]_vars /\ Fairness

(***************************************************************************)
(* SpecStores: as Spec, with further stores built by new().                *)
(***************************************************************************)
New == \E h \in Handles : new(h)

\* the content the stores are given
StoreContents == {"foo"}

AddStores ==
    \E t \in Callers, h \in Handles, c \in StoreContents :
        /\ add_ask(t, h, from_content(TypeOf(c), c))
        /\ UNCHANGED <<storage, spawned, actor, origin, done, step, chan,
                       eavVars, nodeVars, moreVars>>

ContainsStores ==
    \E t \in Callers, h \in Handles, c \in StoreContents :
        /\ contains_ask(t, h, Hash(c))
        /\ UNCHANGED <<storage, spawned, actor, origin, done, step, chan,
                       eavVars, nodeVars, moreVars>>

FetchStores ==
    \E t \in Callers, h \in Handles, c \in StoreContents :
        /\ fetch_ask(t, h, Hash(c), TypeOf(c))
        /\ UNCHANGED <<storage, spawned, actor, origin, done, step, chan,
                       eavVars, nodeVars, moreVars>>

NextStores ==
    New \/ Clone \/ AddStores \/ ContainsStores \/ FetchStores \/ Receive
        \/ Return

SpecStores == Init /\ [][NextStores]_vars

(***************************************************************************)
(* SpecFail: as Spec on one content, with exchanges that fail.  The ask of *)
(* block_on_ask ends with an error when its future is canceled: before the *)
(* actor has taken the request, which is then never handled, or after the  *)
(* actor has handled it, when the reply does not reach the caller.         *)
(***************************************************************************)
FutureCanceled == Err("Failed future")

\* thread t's call returns the error of block_on_ask
ask_fails(t) ==
    /\ pc[t] = "blocked"
    /\ pc' = [pc EXCEPT ![t] = "idle"]
    /\ result' = [result EXCEPT ![t] = FutureCanceled]
    /\ inbox' = [inbox EXCEPT ![t] = NoMsg]

\* the request of thread t is lost before the actor takes it
RequestFails ==
    \E t \in Callers :
        /\ inbox[t] = NoMsg
        /\ ask_fails(t)
        /\ mailbox' = [a \in DOMAIN mailbox |->
                          SelectSeq(mailbox[a], LAMBDA m : m.sender # t)]
        /\ UNCHANGED <<storage, spawned, actor, origin, call, snap, done,
                       asked, step, chan, eavVars, nodeVars, moreVars>>

\* the reply to thread t is lost after the actor has handled the request
ReplyFails ==
    \E t \in Callers :
        /\ inbox[t] # NoMsg
        /\ ask_fails(t)
        /\ UNCHANGED <<storage, spawned, actor, origin, mailbox, call, snap,
                       done, asked, step, chan, eavVars, nodeVars, moreVars>>

NextFail ==
    Clone \/ AddStores \/ ContainsStores \/ FetchStores \/ Receive \/ Return
        \/ RequestFails \/ ReplyFails

SpecFail == Init /\ [][NextFail]_vars

(***************************************************************************)
(* SpecTest: example_content_round_trip_test, that is round_trip_test on   *)
(* a new store with content "foo" and other_content "bar": the main        *)
(* thread, then the three threads handing off through two channels.        *)
(***************************************************************************)
\* the handles of the test, in the order in which they are made
cas == 1
cas_clone == 2
both_cas_0 == 3
both_cas_1 == 4
thread_cas_1 == 5
thread_cas_2 == 6
thread_cas_3 == 7

TestHandles == {cas, cas_clone, both_cas_0, both_cas_1,
                thread_cas_1, thread_cas_2, thread_cas_3}
TestThreads == {"main", "thread1", "thread2", "thread3"}
Channels == {"channel1", "channel2"}

\* test_entry_unique()
entry == "entry"

\* the thread that owns the Sender of a channel
SenderOf(k) == IF k = "channel1" THEN "thread1" ELSE "thread2"

INew(h) == [op |-> "new", handle |-> h]
IClone(h, h2) == [op |-> "clone", handle |-> h, to |-> h2]
IAdd(h, T, c, e) ==
    [op |-> "add", handle |-> h, type |-> T, content |-> c, expect |-> e]
IContains(h, c, e) ==
    [op |-> "contains", handle |-> h, content |-> c, expect |-> e]
IFetch(h, T, c, e) ==
    [op |-> "fetch", handle |-> h, type |-> T, content |-> c, expect |-> e]
ISpawn(t) == [op |-> "spawn", thread |-> t]
ISend(k) == [op |-> "send", channel |-> k]
IRecv(k) == [op |-> "recv", channel |-> k]
IJoin(t) == [op |-> "join", thread |-> t]

\* the three loops over both_cas, for one handle
LoopEmpty(h) ==
    <<IContains(h, "foo", Ok(FALSE)),
      IFetch(h, "ExampleAddressableContent", "foo", Ok(None)),
      IContains(h, "bar", Ok(FALSE)),
      IFetch(h, "OtherExampleAddressableContent", "bar", Ok(None))>>

LoopContent(h) ==
    <<IContains(h, "foo", Ok(TRUE)),
      IContains(h, "bar", Ok(FALSE)),
      IFetch(h, "Content", "foo", Ok(Some(from_content("Content", "foo"))))>>

LoopBoth(h) ==
    <<IContains(h, "foo", Ok(TRUE)),
      IContains(h, "bar", Ok(TRUE)),
      IFetch(h, "Content", "foo", Ok(Some(from_content("Content", "foo")))),
      IFetch(h, "Content", "bar", Ok(Some(from_content("Content", "bar"))))>>

MainScript ==
    <<INew(cas), IClone(cas, cas_clone),
      IClone(cas, both_cas_0), IClone(cas_clone, both_cas_1)>>
    \o LoopEmpty(both_cas_0) \o LoopEmpty(both_cas_1)
    \o <<IAdd(cas, "Content", "foo", Ok(<<>>))>>
    \o LoopContent(both_cas_0) \o LoopContent(both_cas_1)
    \o <<IAdd(cas_clone, "Content", "bar", Ok(<<>>))>>
    \o LoopBoth(both_cas_0) \o LoopBoth(both_cas_1)
    \o <<IClone(cas, thread_cas_1), ISpawn("thread1"),
         IClone(cas, thread_cas_2), ISpawn("thread2"),
         IClone(cas, thread_cas_3), ISpawn("thread3"),
         IJoin("thread3")>>

\* initially should not find entry
Thread1Script ==
    <<IFetch(thread_cas_1, "Entry", entry, Ok(None)), ISend("channel1")>>

\* a second thread that adds without waiting for the first
Thread2ScriptNoWait ==
    <<IAdd(thread_cas_2, "Entry", entry, Ok(<<>>)), ISend("channel2")>>

\* should be able to add an entry found in the next channel
Thread2Script ==
    <<IRecv("channel1"), IAdd(thread_cas_2, "Entry", entry, Ok(<<>>)),
      ISend("channel2")>>

Thread3Script ==
    <<IRecv("channel2"),
      IFetch(thread_cas_3, "Entry", entry,
             Ok(Some(from_content("Entry", entry))))>>

Script(t) ==
    CASE t = "main" -> MainScript
      [] t = "thread1" -> Thread1Script
      [] t = "thread2" -> Thread2Script
      [] t = "thread3" -> Thread3Script

\* the instruction thread t is at
Instr(t) == Script(t)[step[t]]

Runs(t, ops) == pc[t] = "idle" /\ Instr(t).op \in ops

\* thread t moves on to its next instruction, or ends
Advance(t) ==
    /\ step' = [step EXCEPT ![t] = @ + 1]
    /\ pc' = [pc EXCEPT ![t] =
                 IF step[t] = Len(Script(t)) THEN "finished" ELSE "idle"]

\* a failed assert_eq!, expect or unwrap
PanicThread(t) ==
    /\ step' = step
    /\ pc' = [pc EXCEPT ![t] = "panicked"]

InitTest ==
    /\ storage = [a \in Actors |-> HashMapNew]
    /\ spawned = 0
    /\ actor = [h \in TestHandles |-> NoActor]
    /\ origin = [h \in TestHandles |-> h]
    /\ mailbox = [a \in Actors |-> <<>>]
    /\ pc = [t \in TestThreads |-> IF t = "main" THEN "idle" ELSE "unspawned"]
    /\ call = [t \in TestThreads |-> NoCall]
    /\ inbox = [t \in TestThreads |-> NoMsg]
    /\ result = [t \in TestThreads |-> NoResult]
    /\ snap = [t \in TestThreads |-> {}]
    /\ done = [h \in TestHandles |-> {}]
    /\ asked = [h \in TestHandles |-> {}]
    /\ step = [t \in TestThreads |-> 1]
    /\ chan = [k \in Channels |-> <<>>]
    /\ EavInit
    /\ NodeInit
    /\ MoreInit

\* test_content_addressable_storage()
TestNew ==
    \E t \in TestThreads :
        /\ Runs(t, {"new"})
        /\ Unused(Instr(t).handle)
        /\ NewHandle(Instr(t).handle)
        /\ Advance(t)
        /\ UNCHANGED <<mailbox, call, inbox, result, snap, done, asked, chan,
                       eavVars, nodeVars, moreVars>>

\* cas.clone()
TestClone ==
    \E t \in TestThreads :
        /\ Runs(t, {"clone"})
        /\ Unused(Instr(t).to)
        /\ CloneHandle(Instr(t).handle, Instr(t).to)
        /\ Advance(t)
        /\ UNCHANGED <<mailbox, call, inbox, result, snap, done, asked, chan,
                       eavVars, nodeVars, moreVars>>

\* the call of add, contains or fetch
TestCall ==
    \E t \in TestThreads :
        /\ Runs(t, {"add", "contains", "fetch"})
        /\ LET i == Instr(t)
           IN  CASE i.op = "add" ->
                       add_ask(t, i.handle, from_content(i.type, i.content))
                 [] i.op = "contains" ->
                       contains_ask(t, i.handle, Hash(i.content))
                 [] i.op = "fetch" ->
                       fetch_ask(t, i.handle, Hash(i.content), i.type)
        /\ UNCHANGED <<storage, spawned, actor, origin, done, step, chan,
                       eavVars, nodeVars, moreVars>>

\* the call returns and its assert_eq! or expect is evaluated
TestReturn ==
    \E t \in TestThreads :
        /\ call_return(t)
        /\ IF call_result(call[t], inbox[t]) = Instr(t).expect
           THEN Advance(t)
           ELSE PanicThread(t)
        /\ UNCHANGED <<storage, spawned, actor, origin, mailbox, call, snap,
                       asked, chan, eavVars, nodeVars, moreVars>>

\* thread::spawn
TestSpawn ==
    \E t \in TestThreads :
        /\ Runs(t, {"spawn"})
        /\ step' = [step EXCEPT ![t] = @ + 1]
        /\ pc' = [pc EXCEPT ![Instr(t).thread] = "idle"]
        /\ UNCHANGED <<casVarsButPc, chan, eavVars, nodeVars, moreVars>>

\* tx.send(true)
TestSend ==
    \E t \in TestThreads :
        /\ Runs(t, {"send"})
        /\ chan' = [chan EXCEPT ![Instr(t).channel] = Append(@, TRUE)]
        /\ Advance(t)
        /\ UNCHANGED <<casVarsButPc, eavVars, nodeVars, moreVars>>

\* rx.recv().unwrap(): takes a message, or panics once the Sender is gone
TestRecv ==
    \E t \in TestThreads :
        /\ Runs(t, {"recv"})
        /\ LET k == Instr(t).channel
           IN  IF chan[k] # <<>>
               THEN /\ chan' = [chan EXCEPT ![k] = Tail(@)]
                    /\ Advance(t)
               ELSE /\ pc[SenderOf(k)] \in {"finished", "panicked"}
                    /\ chan' = chan
                    /\ PanicThread(t)
        /\ UNCHANGED <<casVarsButPc, eavVars, nodeVars, moreVars>>

\* handle.join().unwrap()
TestJoin ==
    \E t \in TestThreads :
        /\ Runs(t, {"join"})
        /\ pc[Instr(t).thread] \in {"finished", "panicked"}
        /\ IF pc[Instr(t).thread] = "finished"
           THEN Advance(t)
           ELSE PanicThread(t)
        /\ UNCHANGED <<casVarsButPc, chan, eavVars, nodeVars, moreVars>>

NextTest ==
    \/ TestNew \/ TestClone \/ TestCall \/ Receive \/ TestReturn
    \/ TestSpawn \/ TestSend \/ TestRecv \/ TestJoin

SpecTest == InitTest /\ [][NextTest]_vars

(***************************************************************************)
(* SpecEav: any calls of add_eav and fetch_eav on one EAV storage.         *)
(***************************************************************************)
AddEav ==
    \E eav \in Triples :
        /\ Cardinality(eavStorage \cup {eav}) <= MaxTriples
        /\ LET r == add_eav(eavStorage, eav)
           IN  /\ eavStorage' = r[1]
               /\ eavCall' = [op |-> "add_eav", eav |-> eav, result |-> r[2]]
        /\ eavEver' = eavEver \cup {eav}
        /\ eavRepeat' = (eavRepeat \/ eav \in eavEver)
        /\ UNCHANGED <<casVarsButPc, pc, step, chan, nodeVars, moreVars>>

FetchEav ==
    \E e \in OptionOf(EavAddresses), a \in OptionOf(Attributes),
       v \in OptionOf(EavAddresses) :
        /\ eavCall' = [op |-> "fetch_eav", entity |-> e, attribute |-> a,
                       value |-> v,
                       result |-> fetch_eav(eavStorage, e, a, v)]
        /\ UNCHANGED <<eavStorage, eavEver, eavRepeat, casVarsButPc, pc, step,
                       chan, nodeVars, moreVars>>

NextEav == AddEav \/ FetchEav

SpecEav == Init /\ [][NextEav]_vars

(***************************************************************************)
(* SpecNet: the network thread calling the closure for one event after     *)
(* another.  A panic of the closure ends the thread.                        *)
(***************************************************************************)
Deliver ==
    \E message \in Inbound, context \in Contexts :
        /\ net.call.ret # Panic
        /\ LET out == create_handler(context, my_dna_address, message)
           IN  net' = [held |->
                          IF out.handlers = <<"handle_store">>
                          THEN handle_store(net.held, message.data)
                          ELSE net.held,
                      call |->
                          [message |-> message, context |-> context,
                           ret |-> out.ret, handlers |-> out.handlers,
                           log |-> out.log, before |-> net.held]]
        /\ UNCHANGED <<casVarsButPc, pc, step, chan, eavVars, agg,
                     moreVars>>

NextNet == Deliver

SpecNet == Init /\ [][NextNet]_vars

(***************************************************************************)
(* SpecAgg: the node comes to hold entries with their headers and triples  *)
(* about the target entry, and its aspects are fetched in between.         *)
(***************************************************************************)
Held == {a \in AggAddresses : agg.entries[a] # NoEntry}

HoldEntry ==
    \E a \in AggAddresses, k \in EntryKinds, n \in 0..MaxHeaders :
        /\ agg.entries[a] = NoEntry
        /\ Cardinality(Held) < MaxHeld
        /\ agg' = [agg EXCEPT !.entries[a] = k, !.headers[a] = n,
                              !.call = NoAggCall]
        /\ UNCHANGED <<casVarsButPc, pc, step, chan, eavVars, net,
                     moreVars>>

AddMeta ==
    \E eavi \in MetaTriples :
        /\ Len(agg.metas) < MaxMetas
        /\ \A i \in 1..Len(agg.metas) : agg.metas[i] # eavi
        /\ agg' = [agg EXCEPT !.metas = Append(@, eavi), !.call = NoAggCall]
        /\ UNCHANGED <<casVarsButPc, pc, step, chan, eavVars, net,
                     moreVars>>

GetContentAspect ==
    \E a \in AggAddresses, lookup \in {"ok", "err"} :
        /\ agg' = [agg EXCEPT !.call =
                      [op |-> "get_content_aspect", address |-> a,
                       lookup |-> lookup,
                       ret |-> get_content_aspect(agg, a, lookup)]]
        /\ UNCHANGED <<casVarsButPc, pc, step, chan, eavVars, net,
                     moreVars>>

GetMetaAspects ==
    \E answers \in [1..MaxMetas -> NetworkAnswers] :
        /\ LET r == get_meta_aspects(agg, TargetAddress, answers)
           IN  agg' = [agg EXCEPT !.call =
                          [op |-> "get_meta_aspects",
                           address |-> TargetAddress,
                           matching |-> r.matching, results |-> r.results,
                           ret |-> r.ret]]
        /\ UNCHANGED <<casVarsButPc, pc, step, chan, eavVars, net,
                     moreVars>>

FetchEntry ==
    \E lookup \in {"ok", "err"}, answers \in [1..MaxMetas -> NetworkAnswers] :
        /\ LET r == handle_fetch_entry(agg, TargetAddress, lookup, answers)
           IN  agg' = [agg EXCEPT
                          !.call = [op |-> "handle_fetch_entry",
                                    address |-> TargetAddress,
                                    lookup |-> lookup, ret |-> r],
                          !.once = @ \/ (r.ok /\ Len(r.val) = 1)]
        /\ UNCHANGED <<casVarsButPc, pc, step, chan, eavVars, net,
                     moreVars>>

NextAgg ==
    HoldEntry \/ AddMeta \/ GetContentAspect \/ GetMetaAspects \/ FetchEntry

SpecAgg == Init /\ [][NextAgg]_vars

(***************************************************************************)
(* SpecAspect: EntryAspects converted into EntryAspectData, serialized and *)
(* read back.                                                              *)
(***************************************************************************)
IntoEntryAspectData ==
    \E a \in EntryAspects :
        /\ asp' = [op |-> "into", aspect |-> a,
                   data |-> into_EntryAspectData(a)]
        /\ UNCHANGED <<casVarsButPc, pc, step, chan, eavVars, nodeVars, cli,
                       inst>>

TryFromContent ==
    \E c \in {EntryAspect_content(a) : a \in EntryAspects} \cup {NotAnAspect} :
        /\ asp' = [op |-> "try_from_content", content |-> c,
                   ret |-> EntryAspect_try_from_content(c)]
        /\ UNCHANGED <<casVarsButPc, pc, step, chan, eavVars, nodeVars, cli,
                       inst>>

NextAspect == IntoEntryAspectData \/ TryFromContent

SpecAspect == Init /\ [][NextAspect]_vars

(***************************************************************************)
(* Keygen and the reading back of its keystore                             *)
(***************************************************************************)
Keygen ==
    \E path \in PathInputs, passphrase \in PassphraseInputs,
       root_seed \in RootSeedInputs, index \in DerivationIndexes,
       random \in RandomSeeds, io_ok \in BOOLEAN :
        \E typed \in IF passphrase = None THEN Typed
                     ELSE {<<"secret", "secret">>} :
            LET out == keygen(cli.files, path, passphrase, typed, root_seed,
                              index, random, io_ok)
            IN  /\ cli' = [files |-> out.files,
                           call |-> [op |-> "keygen",
                                     root_seed |-> root_seed,
                                     out |-> out]]
                /\ UNCHANGED <<casVarsButPc, pc, step, chan, eavVars,
                               nodeVars, asp, inst>>

Load ==
    \E f \in cli.files, passphrase \in Passphrases :
        /\ cli' = [cli EXCEPT
                      !.call = [op |-> "load", path |-> f.path,
                                passphrase |-> passphrase,
                                ret |-> load(cli.files, f.path, passphrase)]]
        /\ UNCHANGED <<casVarsButPc, pc, step, chan, eavVars, nodeVars, asp,
                       inst>>

RemoveFile ==
    \E f \in cli.files :
        /\ cli' = [files |-> cli.files \ {f},
                   call |-> [op |-> "remove_file", path |-> f.path]]
        /\ UNCHANGED <<casVarsButPc, pc, step, chan, eavVars, nodeVars, asp,
                       inst>>

NextCli == Keygen \/ Load \/ RemoveFile

SpecCli == Init /\ [][NextCli]_vars

(***************************************************************************)
(* The link tests: build a commit action, make an instance, process        *)
(***************************************************************************)
CommitAction ==
    \E links \in LinkSlices :
        /\ inst.next_id <= MaxProcessed
        /\ inst' = [inst EXCEPT
               !.commit_action =
                   ActionWrapper_new(
                       Action_Commit(Entry_LinkList(LinkList_new(links))),
                       inst.next_id),
               !.next_id = @ + 1,
               !.call = [op |-> "commit_action"]]
        /\ UNCHANGED <<casVarsButPc, pc, step, chan, eavVars, nodeVars, asp,
                       cli>>

NewInstance ==
    /\ inst' = [inst EXCEPT !.made = TRUE, !.history = Instance_new,
                            !.processed = 0,
                            !.call = [op |-> "new"]]
    /\ UNCHANGED <<casVarsButPc, pc, step, chan, eavVars, nodeVars, asp, cli>>

ProcessAction ==
    /\ inst.made
    /\ inst.commit_action # NoAction
    /\ inst.processed < MaxProcessed
    /\ inst' = [inst EXCEPT
           !.history = process_action(inst.history, inst.commit_action),
           !.processed = @ + 1,
           !.call = [op |-> "process_action",
                     action_wrapper |-> inst.commit_action]]
    /\ UNCHANGED <<casVarsButPc, pc, step, chan, eavVars, nodeVars, asp, cli>>

NextLink == CommitAction \/ NewInstance \/ ProcessAction

SpecLink == Init /\ [][NextLink]_vars

(***************************************************************************)
(* Properties of the CAS                                                   *)
(***************************************************************************)
Reads == {"contains", "fetch"}

\* thread t's last call has returned
Returned(t) == pc[t] = "idle" /\ call[t].op # "none"

\* what a read c returns when the add recorded as p is visible to it
Visible(c, p) ==
    IF c.op = "contains" THEN Ok(TRUE)
    ELSE Ok(Some(from_content(c.type, p.content)))

\* what a read c returns when nothing is stored at its address
Absent(c) == IF c.op = "contains" THEN Ok(FALSE) ELSE Ok(None)

\* the asks of thread t waiting in the mailbox of actor a
Pending(t, a) == {i \in DOMAIN mailbox[a] : mailbox[a][i].sender = t}

\* C1: once add(C) has returned, contains(address(C)) returns Ok(true) and
\* fetch(address(C)) returns Ok(Some(C)) through every handle that descends
\* from the same new() as the adding handle, whether it was cloned before
\* or after the add.
C1_ClonesSeeAdd ==
    \A t \in DOMAIN call :
        (Returned(t) /\ call[t].op \in Reads) =>
            \A p \in snap[t] : result[t] = Visible(call[t], p)

\* a contains through a clone that existed when the add returned and a fetch
\* through a clone made after it have both returned and seen the content
C1_Witness ==
    \E t, u \in DOMAIN call :
        /\ Returned(t) /\ call[t].op = "contains" /\ result[t] = Ok(TRUE)
        /\ Returned(u) /\ call[u].op = "fetch"
        /\ origin[call[t].handle] # call[t].handle
        /\ \E p \in snap[t] \cap snap[u] :
              /\ call[t].handle <= p.handles
              /\ call[u].handle > p.handles
              /\ result[u] = Ok(Some(from_content(call[u].type, p.content)))

\* C2: adds are linearized by the owning actor: every ask of a blocked
\* thread waits exactly once in the actor's mailbox until it is answered (no
\* add is lost, the mailbox order is the total order), every add that has
\* returned is in the store behind every handle, and the answer to a read
\* that started after an add returned reflects that add.
C2_Linearized ==
    /\ \A h \in DOMAIN actor :
          actor[h] # NoActor =>
              \A p \in done[origin[h]] :
                  HashMapGet(storage[actor[h]], p.address) = Some(p.content)
    /\ \A t \in DOMAIN pc :
          pc[t] = "blocked" =>
              IF inbox[t] = NoMsg
              THEN /\ Cardinality(Pending(t, actor[call[t].handle])) = 1
                   /\ \A a \in DOMAIN mailbox :
                          a # actor[call[t].handle] => Pending(t, a) = {}
              ELSE /\ \A a \in DOMAIN mailbox : Pending(t, a) = {}
                   /\ call[t].op \in Reads =>
                          \A p \in snap[t] :
                              call_result(call[t], inbox[t])
                                  = Visible(call[t], p)

\* two adds of different content that raced through different handles have
\* both returned Ok and both contents are in the store
C2_Witness ==
    \E t, u \in DOMAIN call :
        /\ Returned(t) /\ call[t].op = "add" /\ result[t].ok
        /\ Returned(u) /\ call[u].op = "add" /\ result[u].ok
        /\ call[t].raced
        /\ call[t].handle # call[u].handle
        /\ call[t].address # call[u].address
        /\ actor[call[t].handle] = actor[call[u].handle]
        /\ LET m == storage[actor[call[t].handle]]
           IN  /\ HashMapGet(m, call[t].address) = Some(call[t].content)
               /\ HashMapGet(m, call[u].address) = Some(call[u].content)

\* C3: the store is append only: no step removes a stored address or
\* changes the content stored under it.
C3_AppendOnly ==
    [][\A a \in DOMAIN storage :
          \A k \in DOMAIN storage[a] :
              /\ k \in DOMAIN storage'[a]
              /\ storage'[a][k] = storage[a][k]]_vars

\* both contents are stored, and a fetch that started after the add of its
\* address had returned still found the content
C3_Witness ==
    \E a \in DOMAIN storage :
        /\ DOMAIN storage[a] = Addresses
        /\ \E t \in DOMAIN call :
              /\ Returned(t) /\ call[t].op = "fetch"
              /\ actor[call[t].handle] = a
              /\ snap[t] # {}
              /\ result[t].ok /\ result[t].val # None

\* C4: adding content that is already stored under its address changes
\* nothing: the storage after the step equals the storage before it, and so
\* does the answer of contains and fetch for every address.
C4_DuplicateAddIdempotent ==
    [][\A a \in DOMAIN storage :
          (/\ mailbox[a] # <<>>
           /\ mailbox'[a] = Tail(mailbox[a])
           /\ Head(mailbox[a]).msg.type = "CasAdd"
           /\ HashMapGet(storage[a], Head(mailbox[a]).msg.address)
                  = Some(Head(mailbox[a]).msg.content))
          => /\ storage'[a] = storage[a]
             /\ \A k \in Addresses :
                   /\ unthreadable_contains(storage'[a], k)[2]
                          = unthreadable_contains(storage[a], k)[2]
                   /\ unthreadable_fetch(storage'[a], k)[2]
                          = unthreadable_fetch(storage[a], k)[2]]_vars

\* an add that started after an add of the same content had returned has
\* returned Ok, and the store still maps the address to the content
C4_Witness ==
    \E t \in DOMAIN call :
        /\ Returned(t) /\ call[t].op = "add" /\ result[t] = Ok(<<>>)
        /\ \E p \in snap[t] : p.content = call[t].content
        /\ HashMapGet(storage[actor[call[t].handle]], call[t].address)
               = Some(call[t].content)

\* C5: in round_trip_test's hand-off of three threads on clones of one CAS,
\* in every interleaving thread 1 fetches None and thread 3 fetches
\* Some(entry); no thread of the three panics, and thread 3 has its result
\* when the main thread's join returns.
C5_HandOffFixesOutcome ==
    /\ \A t \in {"thread1", "thread2", "thread3"} : pc[t] # "panicked"
    /\ (call["thread1"].op = "fetch" /\ pc["thread1"] # "blocked")
           => result["thread1"] = Ok(None)
    /\ (call["thread3"].op = "fetch" /\ pc["thread3"] # "blocked")
           => result["thread3"] = Ok(Some(from_content("Entry", entry)))
    /\ pc["main"] = "finished"
           => /\ call["thread1"].op = "fetch" /\ pc["thread1"] = "finished"
              /\ call["thread3"].op = "fetch" /\ pc["thread3"] = "finished"

\* the test has run to its end: thread 1 saw None, thread 2 added the entry
\* and thread 3 saw it
C5_Witness ==
    /\ pc["main"] = "finished"
    /\ result["thread1"] = Ok(None)
    /\ call["thread2"].op = "add" /\ result["thread2"] = Ok(<<>>)
    /\ result["thread3"] = Ok(Some(from_content("Entry", entry)))

\* C6: for an address no add was ever issued for, contains returns Ok(false)
\* and fetch returns Ok(None) through every handle, whatever else has been
\* added.
C6_AbsentIsNotAnError ==
    \A t \in DOMAIN call :
        (/\ Returned(t)
         /\ call[t].op \in Reads
         /\ call[t].address \notin asked[origin[call[t].handle]])
        => result[t] = Absent(call[t])

\* a contains and a fetch of a never added address have returned Ok(false)
\* and Ok(None) through clones made after the add of another content
C6_Witness ==
    \E t, u \in DOMAIN call :
        /\ Returned(t) /\ call[t].op = "contains" /\ result[t] = Ok(FALSE)
        /\ Returned(u) /\ call[u].op = "fetch" /\ result[u] = Ok(None)
        /\ \A x \in {t, u} :
              /\ call[x].address \notin asked[origin[call[x].handle]]
              /\ \E p \in done[origin[call[x].handle]] :
                    call[x].handle > p.handles

\* C7: an add leaves every other address alone: the answer of contains or
\* fetch for an address changes only in the step in which the actor handles
\* a CasAdd for that very address.
C7_AddLeavesOtherAddresses ==
    [][\A a \in DOMAIN storage :
          \A k \in Addresses :
              (\/ unthreadable_contains(storage'[a], k)[2]
                      # unthreadable_contains(storage[a], k)[2]
               \/ unthreadable_fetch(storage'[a], k)[2]
                      # unthreadable_fetch(storage[a], k)[2])
              => /\ mailbox[a] # <<>>
                 /\ Head(mailbox[a]).msg.type = "CasAdd"
                 /\ Head(mailbox[a]).msg.address = k]_vars

\* content of two types shares the store, and a fetch through a clone made
\* after the add of the other content returned the first content unchanged
C7_Witness ==
    \E t \in DOMAIN call :
        /\ Returned(t) /\ call[t].op = "fetch"
        /\ HashMapContainsKey(storage[actor[call[t].handle]], call[t].address)
        /\ result[t] = Ok(Some(from_content(call[t].type,
                                            storage[actor[call[t].handle]]
                                                   [call[t].address])))
        /\ \E p \in done[origin[call[t].handle]] :
              /\ p.address # call[t].address
              /\ call[t].handle > p.handles
              /\ TypeOf(p.content) # call[t].type

(***************************************************************************)
(* Properties of the EAV storage                                           *)
(***************************************************************************)
\* triple x has the field values a query constrains
Matches(x, e, a, v) ==
    /\ e # None => x.entity = e[1]
    /\ a # None => x.attribute = a[1]
    /\ v # None => x.value = v[1]

Fetched == eavCall.op = "fetch_eav"

\* the last call was fetch_eav(e, a, v)
FetchedWith(e, a, v) ==
    /\ Fetched
    /\ eavCall.entity = e /\ eavCall.attribute = a /\ eavCall.value = v

\* C8: after any sequence of add_eav calls, fetch_eav(e?, a?, v?) returns Ok
\* with exactly the triples ever added whose fields equal the constrained
\* fields; with no constraint that is every triple added, with no match the
\* empty set.
C8_FetchEavExact ==
    Fetched =>
        /\ eavCall.result.ok
        /\ eavCall.result.val =
               {x \in eavEver : Matches(x, eavCall.entity, eavCall.attribute,
                                        eavCall.value)}
        /\ (eavCall.entity = None /\ eavCall.attribute = None
            /\ eavCall.value = None) => eavCall.result.val = eavEver

\* a query by entity and attribute returned some, not all, of three stored
\* triples
C8_Witness ==
    /\ Fetched
    /\ Cardinality(eavEver) = 3
    /\ eavCall.entity # None
    /\ eavCall.attribute # None
    /\ eavCall.value = None
    /\ eavCall.result.ok
    /\ eavCall.result.val # {}
    /\ eavCall.result.val # eavEver

\* C9: one to many: when every triple added goes from one entity E under
\* one attribute A to some value, fetch_eav(Some(E), Some(A), None) returns
\* exactly the triples added, and fetch_eav(None, Some(A), Some(V)) for the
\* value V of any of them returns exactly that one triple.
C9_OneToMany ==
    \A E \in EavAddresses, A \in Attributes :
        (\A x \in eavEver : x.entity = E /\ x.attribute = A) =>
            /\ FetchedWith(Some(E), Some(A), None)
                   => eavCall.result = Ok(eavEver)
            /\ \A x \in eavEver :
                   FetchedWith(None, Some(A), Some(x.value))
                       => eavCall.result = Ok({x})

\* three triples from one entity under one attribute to three values were
\* added, one of them again, and the query by one of the values returned its
\* triple
C9_Witness ==
    \E E \in EavAddresses, A \in Attributes :
        /\ Cardinality(eavEver) = 3
        /\ eavRepeat
        /\ \A x \in eavEver : x.entity = E /\ x.attribute = A
        /\ \E x \in eavEver :
              /\ FetchedWith(None, Some(A), Some(x.value))
              /\ eavCall.result = Ok({x})

\* C10: many to one: when every triple added goes from some entity under
\* one attribute A to one value V, fetch_eav(None, Some(A), Some(V)) returns
\* exactly the triples added, and fetch_eav(Some(E), Some(A), None) for the
\* entity E of any of them returns exactly that one triple.
C10_ManyToOne ==
    \A V \in EavAddresses, A \in Attributes :
        (\A x \in eavEver : x.value = V /\ x.attribute = A) =>
            /\ FetchedWith(None, Some(A), Some(V))
                   => eavCall.result = Ok(eavEver)
            /\ \A x \in eavEver :
                   FetchedWith(Some(x.entity), Some(A), None)
                       => eavCall.result = Ok({x})

\* three triples from three entities under one attribute to one value were
\* added, one of them again, and the query by one of the entities returned
\* its triple
C10_Witness ==
    \E V \in EavAddresses, A \in Attributes :
        /\ Cardinality(eavEver) = 3
        /\ eavRepeat
        /\ \A x \in eavEver : x.value = V /\ x.attribute = A
        /\ \E x \in eavEver :
              /\ FetchedWith(Some(x.entity), Some(A), None)
              /\ eavCall.result = Ok({x})

\* C11: EAV triples are immutable and never deleted: an add_eav of a triple
\* that is already stored leaves the stored set and the result of every
\* fetch_eav query unchanged, and after any sequence of add_eav calls the
\* unconstrained query returns every triple ever added.
C11_TriplesImmutable ==
    /\ [](fetch_eav(eavStorage, None, None, None) = Ok(eavEver))
    /\ [][(eavCall'.op = "add_eav" /\ eavCall'.eav \in eavStorage)
            => /\ eavStorage' = eavStorage
               /\ \A e \in OptionOf(EavAddresses), a \in OptionOf(Attributes),
                     v \in OptionOf(EavAddresses) :
                       fetch_eav(eavStorage', e, a, v)
                           = fetch_eav(eavStorage, e, a, v)]_vars

C11_Witness ==
    /\ eavRepeat
    /\ eavCall.op = "add_eav"
    /\ eavCall.result = Ok(<<>>)
    /\ Cardinality(eavStorage) >= 2
    /\ eavStorage = eavEver

(***************************************************************************)
(* Properties of the network handler                                       *)
(***************************************************************************)
\* the closure was called last with a protocol message
Decoded ==
    /\ net.call.ret # NoResult
    /\ net.call.message.res = "ok"
    /\ net.call.message.protocol

\* the last call of the closure invoked no handler, left what the node
\* holds as it was and returned Ok(())
Dropped ==
    /\ net.call.handlers = <<>>
    /\ net.held = net.call.before
    /\ net.call.ret = Ok(<<>>)

\* C12: space isolation in the router: a message of a kind that carries a
\* space address, whose space address is not this node's dna address,
\* invokes no handler, changes nothing the node holds, logs no line, and
\* the closure returns Ok.
C12_SpaceIsolation ==
    (/\ Decoded
     /\ net.call.message.data.kind \in SpaceKinds
     /\ net.call.message.data.space_address # my_dna_address)
        => (Dropped /\ net.call.log = <<>>)

C12_Witness ==
    /\ Decoded
    /\ net.call.message.data.kind = "HandleStoreEntryAspect"
    /\ net.call.message.data.space_address # my_dna_address
    /\ net.call.message.data.payload = "json"
    /\ net.call.message.data.entry_address \notin net.held
    /\ net.call.context.debug
    /\ net.held # {}
    /\ Dropped

C14_UndecodableDropped ==
    (/\ net.call.ret # NoResult
     /\ net.call.message.res = "ok"
     /\ ~net.call.message.protocol)
        => (Dropped /\ net.call.log = <<>>)

C14_Witness ==
    /\ net.call.ret # NoResult
    /\ net.call.message.res = "ok"
    /\ ~net.call.message.protocol
    /\ net.held # {}
    /\ Dropped

\* C15: no inbound message crashes the dispatch: for every message
\* delivered to the closure the call returns Ok without panicking, and the
\* message is dispatched to a handler at most once.
C15_NoMessageCrashes ==
    (/\ net.call.ret # NoResult
     /\ net.call.message.res = "ok")
        => /\ net.call.ret = Ok(<<>>)
           /\ Len(net.call.handlers) <= 1

(***************************************************************************)
(* Properties of the aspect aggregation                                    *)
(***************************************************************************)
\* the triples of the target entry that the aggregation keeps
Matching ==
    SelectSeq(agg.metas,
              LAMBDA eavi :
                  /\ eavi.entity = TargetAddress
                  /\ eavi.attribute \in {"LinkTag", "RemovedLink", "CrudLink"})

\* the node holds an entry at the address that can be published, with a
\* header
Publishable(a) ==
    /\ agg.entries[a] # NoEntry
    /\ can_publish(Entry(agg.entries[a], a))
    /\ agg.headers[a] >= 1

\* the closure results that are errors, by position
Failing(results) ==
    {i \in 1..Len(results) : ~results[i].ok /\ results[i] # Panic}

\* C16: aggregating the aspects of an address that has a stored publishable
\* entry with a header and no link, update or removal triple yields exactly
\* one aspect, a Content aspect; with exactly one such triple, a LinkTag
\* triple from the address to a stored link-add entry, the aggregation
\* yields exactly two aspects, the Content aspect and a LinkAdd aspect.
C16_ContentThenLinkAdd ==
    (/\ agg.call.op = "handle_fetch_entry"
     /\ agg.call.lookup = "ok"
     /\ Publishable(TargetAddress))
        => /\ Len(Matching) = 0
                => /\ agg.call.ret.ok
                   /\ Len(agg.call.ret.val) = 1
                   /\ agg.call.ret.val[1].aspect = "Content"
           /\ (/\ Len(Matching) = 1
               /\ Matching[1].attribute = "LinkTag"
               /\ agg.entries[Matching[1].value] = "LinkAdd"
               /\ agg.headers[Matching[1].value] >= 1)
                => /\ agg.call.ret.ok
                   /\ Len(agg.call.ret.val) = 2
                   /\ agg.call.ret.val[1].aspect = "Content"
                   /\ agg.call.ret.val[2].aspect = "LinkAdd"
                   /\ agg.call.ret.val[2].entry.address = Matching[1].value

C16_Witness ==
    /\ agg.once
    /\ agg.call.op = "handle_fetch_entry"
    /\ Len(Matching) = 1
    /\ Matching[1].attribute = "LinkTag"
    /\ agg.call.ret.ok
    /\ Len(agg.call.ret.val) = 2
    /\ agg.call.ret.val[2].aspect = "LinkAdd"

\* C17: get_content_aspect returns an error, and builds no Content aspect,
\* whenever no headers are found locally for the address, also when the
\* lookup of the headers succeeds with an empty list.
C17_NoHeadersIsAnError ==
    (/\ agg.call.op = "get_content_aspect"
     /\ (agg.call.lookup = "err" \/ agg.headers[agg.call.address] = 0))
        => (~agg.call.ret.ok /\ agg.call.ret # Panic)

\* C18: get_content_aspect returns the error EntryIsPrivate, and builds no
\* Content aspect, whenever the entry at the address has a type that cannot
\* be published, and EntryNotFoundLocally when no entry is held locally at
\* the address.
C18_PrivateOrNotFound ==
    agg.call.op = "get_content_aspect"
        => /\ agg.entries[agg.call.address] = NoEntry
                => agg.call.ret = Err(EntryNotFoundLocally)
           /\ (/\ agg.entries[agg.call.address] # NoEntry
               /\ ~can_publish(Entry(agg.entries[agg.call.address],
                                     agg.call.address)))
                => agg.call.ret = Err(EntryIsPrivate)

C18_Witness ==
    /\ agg.call.op = "get_content_aspect"
    /\ agg.call.lookup = "ok"
    /\ agg.entries[agg.call.address] = "PrivateApp"
    /\ agg.headers[agg.call.address] >= 1
    /\ agg.call.ret = Err(EntryIsPrivate)

\* C19: get_meta_aspects never returns partial results: if resolving the
\* value of a matching triple fails, the call returns Err with the error of
\* the first failing triple in the order of the matching triples, and it
\* returns Ok only when every matching triple resolved.
C19_FirstErrorOrAll ==
    agg.call.op = "get_meta_aspects"
        => /\ Failing(agg.call.results) # {}
                => agg.call.ret
                       = agg.call.results[Min(Failing(agg.call.results))]
           /\ agg.call.ret.ok
                => /\ Failing(agg.call.results) = {}
                   /\ Len(agg.call.ret.val) = Len(agg.call.matching)

\* C20: the aggregation does not block on the resolution of a triple's
\* value beyond the timeout: when a resolution exceeds the timeout,
\* get_meta_aspects ends and returns an error.
C20_TimeoutReturnsError ==
    (/\ agg.call.op = "get_meta_aspects"
     /\ \E i \in 1..Len(agg.call.results) :
            agg.call.results[i] = Err(Timeout))
        => (~agg.call.ret.ok /\ agg.call.ret # Panic)

(***************************************************************************)
(* Properties of EntryAspect                                               *)
(***************************************************************************)
\* the type hint of each variant
HintOf ==
    [Content |-> "content", Header |-> "header", LinkAdd |-> "link_add",
     LinkRemove |-> "link_remove", Update |-> "update",
     Deletion |-> "deletion"]

\* C21: converting an EntryAspect of any variant into EntryAspectData gives
\* the type hint of the variant, aspect bytes that are the bytes of the
\* aspect's JSON (they read back as the aspect), and an aspect_address
\* that is the address of that JSON, not the address of the entry, link
\* data or header the aspect carries.
C21_IntoEntryAspectData ==
    asp.op = "into"
        => /\ asp.data.type_hint = HintOf[asp.aspect.aspect]
           /\ asp.data.aspect[1] = "bytes"
           /\ EntryAspect_try_from_content(asp.data.aspect[2])
                  = Ok(asp.aspect)
           /\ asp.data.aspect_address = Hash(asp.data.aspect[2])
           /\ asp.data.aspect_address # Hash(JsonOf(asp.aspect.header))
           /\ asp.aspect.aspect \notin {"Header", "Deletion"}
                  => asp.data.aspect_address # Hash(JsonOf(asp.aspect.entry))

C21_Witness ==
    /\ asp.op = "into"
    /\ asp.aspect.aspect = "Update"
    /\ asp.aspect.entry = "entry_2"
    /\ asp.data.type_hint = "update"

\* C22: the publish_ts of the EntryAspectData is the header's timestamp in
\* whole seconds: the conversion to the unsigned integer gives the same
\* number of seconds, also for a timestamp before the epoch.
C22_PublishTsIsSeconds ==
    asp.op = "into"
        => asp.data.publish_ts = asp.aspect.header.timestamp \div 2

C26_FetchResultUnexpected ==
    (/\ Decoded
     /\ net.call.message.data.kind = "FetchEntryResult"
     /\ net.call.message.data.space_address = my_dna_address)
        => /\ Dropped
           /\ Len(net.call.log) = 1
           /\ net.call.log[1].level = "error"
           /\ net.call.log[1].text[1]
                  = "net/handle: unexpected HandleFetchEntryResult"
           /\ net.call.log[1].text[2] = net.call.message.data

C26_Witness ==
    /\ Decoded
    /\ net.call.message.data.kind = "FetchEntryResult"
    /\ net.call.message.data.space_address = my_dna_address
    /\ ~net.call.context.debug
    /\ net.held # {}
    /\ net.call.log # <<>>

\* the handler of each kind that has one
HandlerOf ==
    [HandleStoreEntryAspect |-> "handle_store",
     HandleFetchEntry |-> "handle_fetch_entry",
     HandleQueryEntry |-> "handle_query_entry_data",
     QueryEntryResult |-> "handle_query_entry_result",
     HandleSendDirectMessage |-> "handle_send_message",
     SendDirectMessageResult |-> "handle_send_message_result",
     HandleGetAuthoringEntryList |-> "handle_get_authoring_list",
     HandleGetGossipingEntryList |-> "handle_get_gossip_list"]

\* the last message is for this node's space and, when its kind names an
\* agent, for this node or for nobody in particular
PassesFilters ==
    /\ net.call.message.data.space_address = my_dna_address
    /\ net.call.message.data.kind \in AgentKinds
           => net.call.message.data.agent_id \in {my_agent_id, ""}

\* C27: dispatch by kind: a decoded message invokes at most one handler,
\* and the handler is the one of its kind; a message of a kind with a
\* handler that passes the filters has its handler invoked when the closure
\* returns Ok; Connected, FailureResult, FetchEntryResult and the kinds the
\* match does not name invoke no handler.
C27_DispatchByKind ==
    Decoded
        => LET kind == net.call.message.data.kind
           IN  /\ Len(net.call.handlers) <= 1
               /\ kind \in DOMAIN HandlerOf
                      => /\ net.call.handlers \in {<<>>, <<HandlerOf[kind]>>}
                         /\ (PassesFilters /\ net.call.ret = Ok(<<>>))
                                => net.call.handlers = <<HandlerOf[kind]>>
               /\ kind \notin DOMAIN HandlerOf => net.call.handlers = <<>>

C27_Witness ==
    /\ Decoded
    /\ net.call.message.data.kind = "HandleGetGossipingEntryList"
    /\ PassesFilters
    /\ net.call.handlers = <<"handle_get_gossip_list">>
    /\ net.call.ret = Ok(<<>>)

(***************************************************************************)
(* Properties of get_meta_aspects                                          *)
(***************************************************************************)
\* the aspect variant of each attribute the aggregation keeps
AspectOf ==
    [LinkTag |-> "LinkAdd", RemovedLink |-> "LinkRemove",
     CrudLink |-> "Update"]

\* C28: when get_meta_aspects succeeds, its result has exactly one aspect
\* for each stored triple of the target address whose attribute is LinkTag,
\* RemovedLink or CrudLink, in their order, and none for other triples: a
\* LinkAdd aspect for a LinkTag triple, a LinkRemove aspect for a
\* RemovedLink triple, an Update aspect for a CrudLink triple, each with the
\* entry the value of the triple resolves to and the first header of that
\* entry, whatever that entry is.
C28_OneAspectPerMatchingTriple ==
    (agg.call.op = "get_meta_aspects" /\ agg.call.ret.ok)
        => /\ Len(agg.call.ret.val) = Len(Matching)
           /\ \A i \in 1..Len(Matching) :
                  /\ agg.call.ret.val[i].aspect
                         = AspectOf[Matching[i].attribute]
                  /\ agg.call.ret.val[i].entry
                         = Entry(agg.entries[Matching[i].value],
                                 Matching[i].value)
                  /\ agg.call.ret.val[i].header
                         = ChainHeader(Matching[i].value, 1)

C28_Witness ==
    /\ agg.call.op = "get_meta_aspects"
    /\ agg.call.ret.ok
    /\ Len(agg.metas) > Len(Matching)
    /\ Len(Matching) = 1
    /\ Matching[1].attribute = "CrudLink"
    /\ agg.entries[Matching[1].value] = "LinkAdd"
    /\ agg.call.ret.val[1].aspect = "Update"

\* C29: a matching triple whose value resolves to no entry is a hard error:
\* get_meta_aspects returns Err, it does not skip the triple and does not
\* return the other aspects.
C29_MissingValueIsAnError ==
    (/\ agg.call.op = "get_meta_aspects"
     /\ \E i \in 1..Len(agg.call.results) :
            agg.call.results[i] = Err(LinkedEntryNotFound))
        => (~agg.call.ret.ok /\ agg.call.ret # Panic)

\* C30: fail-fast: once the resolution of one matching triple has failed,
\* get_meta_aspects resolves no further triple before it returns: the
\* closure has run for no triple after the first failing one.
C30_NoResolutionAfterFailure ==
    (agg.call.op = "get_meta_aspects" /\ Failing(agg.call.results) # {})
        => Len(agg.call.results) = Min(Failing(agg.call.results))

(***************************************************************************)
(* Properties of the CAS: reads, failed adds, replies, separate stores     *)
(***************************************************************************)
\* the answers the actor a gives for address k in the current state
ContainsNow(a, k) == unthreadable_contains(storage[a], k)
FetchNow(a, k) == unthreadable_fetch(storage[a], k)

\* an add was issued for address k through a handle of actor a
AddIssued(a, k) ==
    \E h \in DOMAIN actor : actor[h] = a /\ k \in asked[origin[h]]

\* in this state contains and fetch of every actor agree on every address,
\* answer yes only for an address an add was issued for, and leave the
\* storage as it is
ReadsAgree ==
    \A a \in DOMAIN storage :
        \A k \in Addresses :
            /\ ContainsNow(a, k)[2].ok
            /\ FetchNow(a, k)[2].ok
            /\ ContainsNow(a, k)[2].val = TRUE
                   <=> FetchNow(a, k)[2].val # None
            /\ ContainsNow(a, k)[2].val = TRUE => AddIssued(a, k)
            /\ FetchNow(a, k)[2].val # None
                   => Hash(FetchNow(a, k)[2].val[1]) = k
            /\ ContainsNow(a, k)[1] = storage[a]
            /\ FetchNow(a, k)[1] = storage[a]

\* a contains or fetch that has returned a yes did so for an address the
\* store holds, and then the other read gives a yes too
ReadsReturnedAgree ==
    \A t \in DOMAIN call :
        (/\ Returned(t)
         /\ call[t].op \in Reads
         /\ result[t] # Absent(call[t]))
        => /\ result[t].ok
           /\ ContainsNow(actor[call[t].handle], call[t].address)[2]
                  = Ok(TRUE)
           /\ FetchNow(actor[call[t].handle], call[t].address)[2].val # None

\* the step in which an actor handles a CasContains or a CasFetch leaves
\* every storage as it was
ReadsKeepStore ==
    \A a \in DOMAIN storage :
        (/\ mailbox[a] # <<>>
         /\ mailbox'[a] = Tail(mailbox[a])
         /\ Head(mailbox[a]).msg.type \in {"CasContains", "CasFetch"})
        => storage' = storage

\* C33: in every reachable state and on every handle contains(A) and
\* fetch(A) agree: contains(A) is Ok(true) exactly when fetch(A) is
\* Ok(Some(_)), both only for an address an add has taken effect for, and
\* contains and fetch never change the store.
C33_ContainsFetchAgree ==
    /\ [](ReadsAgree /\ ReadsReturnedAgree)
    /\ [][ReadsKeepStore]_vars

\* a contains and a fetch of one address through two handles of one actor
\* have both returned a yes, while the store does not hold the other address
C33_Witness ==
    \E t, u \in DOMAIN call :
        /\ Returned(t) /\ call[t].op = "contains" /\ result[t] = Ok(TRUE)
        /\ Returned(u) /\ call[u].op = "fetch" /\ result[u].ok
        /\ result[u].val # None
        /\ call[t].address = call[u].address
        /\ call[t].handle # call[u].handle
        /\ \E k \in Addresses :
               ContainsNow(actor[call[t].handle], k)[2] = Ok(FALSE)

\* the handles in use
Used == {h \in DOMAIN actor : actor[h] # NoActor}

\* handles share an actor exactly when they descend from the same new()
SharedByDescent ==
    \A h, g \in Used : (actor[h] = actor[g]) <=> (origin[h] = origin[g])

\* a read that returned a yes did so for an address an add was issued for
\* through a handle that descends from the same new()
SeenOnlyWithinStore ==
    \A t \in DOMAIN call :
        (/\ Returned(t)
         /\ call[t].op \in Reads
         /\ result[t] # Absent(call[t]))
        => call[t].address \in asked[origin[call[t].handle]]

\* a step that puts a handle h2 into use either is a new(), which gives it
\* an actor no other handle has, with an empty storage, or is a clone, which
\* gives it the actor of the handle it is cloned from
NewOrClone ==
    \A h2 \in DOMAIN actor :
        (actor[h2] = NoActor /\ actor'[h2] # NoActor)
        => \/ /\ origin'[h2] = h2
              /\ \A g \in Used : actor'[g] # actor'[h2]
              /\ storage'[actor'[h2]] = HashMapNew
           \/ /\ origin'[h2] # h2
              /\ origin'[h2] \in {origin[g] : g \in Used}
              /\ \A g \in Used :
                     origin[g] = origin'[h2] => actor'[h2] = actor[g]

ReplyKind ==
    [CasAdd |-> "CasAddResult", CasContains |-> "CasContainsResult",
     CasFetch |-> "CasFetchResult"]
ReplyOfCall ==
    [add |-> "CasAddResult", contains |-> "CasContainsResult",
     fetch |-> "CasFetchResult"]

\* a reply that has arrived is of the kind of the call it arrived for, a
\* request waiting in a mailbox is the request of its sender's call, and no
\* call has returned by the panic of unwrap_to!
RepliesMatch ==
    /\ \A t \in DOMAIN call :
          /\ inbox[t] # NoMsg
                => /\ pc[t] = "blocked"
                   /\ inbox[t].type = ReplyOfCall[call[t].op]
                   /\ inbox[t].val.ok
          /\ Returned(t) => (result[t].ok /\ result[t] # Panic)
          /\ (Returned(t) /\ call[t].op = "fetch" /\ result[t].val # None)
                => address(result[t].val[1]) = call[t].address
    /\ \A a \in DOMAIN mailbox :
          \A i \in DOMAIN mailbox[a] :
              LET ask == mailbox[a][i]
              IN  /\ pc[ask.sender] = "blocked"
                  /\ actor[call[ask.sender].handle] = a
                  /\ ReplyKind[ask.msg.type] = ReplyOfCall[call[ask.sender].op]
                  /\ ask.msg.address = call[ask.sender].address

\* the step in which an actor handles a request gives the reply of its
\* kind to the sender of the request and to nobody else
ReplyToSender ==
    \A a \in DOMAIN mailbox :
        (mailbox[a] # <<>> /\ mailbox'[a] = Tail(mailbox[a]))
        => LET ask == Head(mailbox[a])
           IN  /\ inbox'[ask.sender] # NoMsg
               /\ inbox'[ask.sender].type = ReplyKind[ask.msg.type]
               /\ \A u \in DOMAIN inbox :
                      u # ask.sender => inbox'[u] = inbox[u]

AddNotFailed(a, k) ==
    \/ \E h \in Used :
           actor[h] = a /\ \E p \in done[origin[h]] : p.address = k
    \/ \E u \in DOMAIN call :
           /\ pc[u] = "blocked"
           /\ call[u].op = "add"
           /\ call[u].address = k
           /\ actor[call[u].handle] = a

\* C31: add is all-or-nothing for its caller: when an add call has returned
\* an error, also the error of a failed exchange with the actor, the store
\* does not hold the content of that add (unless an add of it that did not
\* fail put it there), so that no handle observes it.
C31_FailedAddLeavesNoTrace ==
    \A t \in DOMAIN call :
        (Returned(t) /\ call[t].op = "add" /\ ~result[t].ok)
        => LET a == actor[call[t].handle]
           IN  HashMapContainsKey(storage[a], call[t].address)
                   => AddNotFailed(a, call[t].address)

====
